---------------------------- MODULE Spec2Model ----------------------------
(***************************************************************************)
(* A model of the FAT-style archive engine of libgamearchive               *)
(* (FATArchive, fatarchive.cpp) together with the format strategies that   *)
(* plug into it: Doom WAD, Blood RFF, Lion King EPF, Monster Bash DAT,     *)
(* Doofus G-D and Stellar 7 RES.                                           *)
(*                                                                         *)
(* The archive is a record (the fields of the C++ objects).  Every engine  *)
(* operation and every strategy hook is an operator from archive records   *)
(* to archive records, written in the order of the statements of the       *)
(* source.  The backing stream is modelled by its length, the header       *)
(* fields the strategies write, the FAT records it holds and the place the *)
(* FAT really occupies; a stream access that the code aims at a place that *)
(* is not the structure it means to edit is recorded in `stray'.           *)
(***************************************************************************)
EXTENDS Integers, Sequences, FiniteSets, TLC

(***************************************************************************)
(* Bounds of the model.                                                    *)
(***************************************************************************)
MaxHandles == 3      \* entries ever created in one run (loaded + inserted)
MaxInitFiles == 2    \* entries of the loaded archive
MaxSize == 1         \* largest stored size of an entry
MaxSubs == 2         \* tracked sub-stream references
MaxGdSlots == 3      \* slots of the G-D FAT (64 in the game's file)
MaxCalls == 3        \* calls made on the archive in one run
MaxTracked == 3      \* tracked references in the runs that start with open files
BigSize == 65536     \* a stored size that does not fit a 16-bit size field

(***************************************************************************)
(* Program constants.                                                      *)
(***************************************************************************)
WAD_HEADER_LEN == 12
WAD_FAT_ENTRY_LEN == 16
WAD_FILENAME_FIELD_LEN == 8
RFF_HEADER_LEN == 32
RFF_FAT_ENTRY_LEN == 48
EPF_HEADER_LEN == 11
EPF_FAT_ENTRY_LEN == 22
EPF_FAT_FILESIZE_OFFSET == 14
EPF_FILENAME_FIELD_LEN == 13
DAT_EFAT_ENTRY_LEN == 37
DAT_FILENAME_FIELD_LEN == 31
DAT_FIRST_FILE_OFFSET == 0
GD_FIRST_FILE_OFFSET == 0
GD_FAT_ENTRY_LEN == 8
RES_FAT_ENTRY_LEN == 8
RES_MAX_FILENAME_LEN == 4
EPF_MAX_FILENAME_LEN == 12
DAT_MAX_FILENAME_LEN == 30
ARCH_STD_DOS_FILENAMES == 12
RFF_FILE_ENCRYPTED == 16
RFF_VERSION_2_0 == 512    \* 0x200
RFF_VERSION_3_1 == 769    \* 0x301

Formats == {"wad", "rff", "epf", "dat", "gd", "res"}

Min(a, b) == IF a < b THEN a ELSE b

InsertAt(seq, i, x) == SubSeq(seq, 1, i - 1) \o <<x>> \o SubSeq(seq, i, Len(seq))

RemoveAt(seq, i) == SubSeq(seq, 1, i - 1) \o SubSeq(seq, i + 1, Len(seq))

Range(seq) == {seq[i] : i \in 1..Len(seq)}

(***************************************************************************)
(* Characters and names.  A name is a sequence of one-character strings.   *)
(***************************************************************************)
LowerChars == <<"a","b","c","d","e","f","g","h","i","j","k","l","m",
                "n","o","p","q","r","s","t","u","v","w","x","y","z">>
UpperChars == <<"A","B","C","D","E","F","G","H","I","J","K","L","M",
                "N","O","P","Q","R","S","T","U","V","W","X","Y","Z">>

ToUpperChar(c) ==
    IF \E i \in 1..26 : LowerChars[i] = c
    THEN UpperChars[CHOOSE i \in 1..26 : LowerChars[i] = c]
    ELSE c

ToLowerChar(c) ==
    IF \E i \in 1..26 : UpperChars[i] = c
    THEN LowerChars[CHOOSE i \in 1..26 : UpperChars[i] = c]
    ELSE c

uppercase(name) == [i \in 1..Len(name) |-> ToUpperChar(name[i])]

icasecmp(a, b) ==
    /\ Len(a) = Len(b)
    /\ \A i \in 1..Len(a) : ToLowerChar(a[i]) = ToLowerChar(b[i])

\* What a 16-bit little-endian field keeps of a value.
u16le(v) == v % 65536

\* What a null-padded field of n bytes keeps of a name.
nullPadded(name, n) == SubSeq(name, 1, Min(Len(name), n))


(***************************************************************************)
(* Entries and FAT records.                                                *)
(***************************************************************************)
\* A FATEntry as insert() creates it, before its place is worked out.
\* fAttr is the set of attribute flags of the file.
NewEntry(name, size, attr) ==
    [strName |-> name, storedSize |-> size, bValid |-> TRUE,
     iOffset |-> 0, iIndex |-> 0, lenHeader |-> 0, fAttr |-> attr]

\* One FAT record of a stream: the fields the strategies write.  type is the
\* type number of a DAT record, the flags byte of an RFF record and bit 31 of
\* the size field of a RES record (size is then its low 31 bits).  dataLen
\* is the number of data bytes that follow an embedded record (DAT, RES).
FatRec(off, size, name, ext, type) ==
    [off |-> off, size |-> size, name |-> name, ext |-> ext, type |-> type,
     dataLen |-> 0]

BlankRec == FatRec(0, 0, <<>>, <<>>, 0)

Embedded(s) == s.fmt \in {"dat", "res"}

HeaderLenOf(fmt) ==
    CASE fmt = "dat" -> DAT_EFAT_ENTRY_LEN
      [] fmt = "res" -> RES_FAT_ENTRY_LEN
      [] OTHER -> 0

FatEntryLenOf(fmt) ==
    CASE fmt = "wad" -> WAD_FAT_ENTRY_LEN
      [] fmt = "rff" -> RFF_FAT_ENTRY_LEN
      [] fmt = "epf" -> EPF_FAT_ENTRY_LEN
      [] fmt = "gd" -> GD_FAT_ENTRY_LEN
      [] OTHER -> HeaderLenOf(fmt)

offFirstFile(fmt) ==
    CASE fmt = "wad" -> WAD_HEADER_LEN
      [] fmt = "rff" -> RFF_HEADER_LEN
      [] fmt = "epf" -> EPF_HEADER_LEN
      [] fmt = "dat" -> DAT_FIRST_FILE_OFFSET
      [] fmt = "gd" -> GD_FIRST_FILE_OFFSET
      [] OTHER -> 0

(***************************************************************************)
(* The backing stream (a segmented stream).  s.len is its length, s.dFAT   *)
(* the FAT records it holds in stream order, s.fatPos the place where the  *)
(* FAT really starts (WAD, RFF, EPF) and s.descLen the bytes between the   *)
(* file data and the FAT (EPF).  In DAT and RES every record of s.dFAT is  *)
(* an embedded header followed by dataLen bytes of data.  s.fatTail tells  *)
(* that the loaded WAD file keeps its FAT behind the file data.            *)
(***************************************************************************)
RECURSIVE ChunkStart(_, _)
ChunkStart(s, k) ==
    IF k <= 1 THEN 0
    ELSE ChunkStart(s, k - 1) + HeaderLenOf(s.fmt) + s.dFAT[k - 1].dataLen

ChunkDataStart(s, k) == ChunkStart(s, k) + HeaderLenOf(s.fmt)

ChunkEnd(s, k) == ChunkDataStart(s, k) + s.dFAT[k].dataLen

\* The part of the stream that holds file data (formats with no embedded FAT).
DataStart(s) ==
    CASE s.fmt = "wad" /\ s.fatTail -> WAD_HEADER_LEN
      [] s.fmt = "wad" -> WAD_HEADER_LEN + WAD_FAT_ENTRY_LEN * Len(s.dFAT)
      [] s.fmt = "rff" -> RFF_HEADER_LEN
      [] s.fmt = "epf" -> EPF_HEADER_LEN
      [] OTHER -> 0

DataEnd(s) ==
    CASE s.fmt = "rff" \/ s.fatTail -> s.fatPos
      [] s.fmt = "epf" -> s.fatPos - s.descLen
      [] OTHER -> s.len

FatAfterData(s) == s.fmt \in {"rff", "epf"} \/ s.fatTail

Stray(s) == [s EXCEPT !.stray = TRUE, !.touched = TRUE]

\* seekp(p); insert(n) of file data.
StreamInsert(s, p, n) ==
    IF Embedded(s)
    THEN IF \E k \in 1..Len(s.dFAT) : ChunkDataStart(s, k) <= p /\ p <= ChunkEnd(s, k)
         THEN LET k == CHOOSE k \in 1..Len(s.dFAT) :
                           ChunkDataStart(s, k) <= p /\ p <= ChunkEnd(s, k)
              IN  [s EXCEPT !.len = @ + n, !.touched = TRUE,
                            !.dFAT[k].dataLen = @ + n]
         ELSE IF 0 <= p /\ p <= s.len
              THEN [Stray(s) EXCEPT !.len = @ + n]
              ELSE Stray(s)
    ELSE IF DataStart(s) <= p /\ p <= DataEnd(s)
         THEN [s EXCEPT !.len = @ + n, !.touched = TRUE,
                        !.fatPos = IF FatAfterData(s) THEN @ + n ELSE @]
         ELSE IF 0 <= p /\ p <= s.len
              THEN [Stray(s) EXCEPT !.len = @ + n,
                        !.fatPos = IF FatAfterData(s) /\ p <= @ THEN @ + n ELSE @]
              ELSE Stray(s)

\* seekp(p); remove(n) of file data, or of a whole embedded record and its data.
StreamRemove(s, p, n) ==
    IF Embedded(s)
    THEN IF \E k \in 1..Len(s.dFAT) : ChunkStart(s, k) = p /\ ChunkEnd(s, k) = p + n
         THEN LET k == CHOOSE k \in 1..Len(s.dFAT) :
                           ChunkStart(s, k) = p /\ ChunkEnd(s, k) = p + n
              IN  [s EXCEPT !.len = @ - n, !.touched = TRUE,
                            !.dFAT = RemoveAt(@, k)]
         ELSE IF \E k \in 1..Len(s.dFAT) :
                     ChunkDataStart(s, k) <= p /\ p + n <= ChunkEnd(s, k)
         THEN LET k == CHOOSE k \in 1..Len(s.dFAT) :
                           ChunkDataStart(s, k) <= p /\ p + n <= ChunkEnd(s, k)
              IN  [s EXCEPT !.len = @ - n, !.touched = TRUE,
                            !.dFAT[k].dataLen = @ - n]
         ELSE IF 0 <= p /\ p + n <= s.len
              THEN [Stray(s) EXCEPT !.len = @ - n]
              ELSE Stray(s)
    ELSE IF DataStart(s) <= p /\ p + n <= DataEnd(s)
         THEN [s EXCEPT !.len = @ - n, !.touched = TRUE,
                        !.fatPos = IF FatAfterData(s) THEN @ - n ELSE @]
         ELSE IF 0 <= p /\ p + n <= s.len
              THEN [Stray(s) EXCEPT !.len = @ - n,
                        !.fatPos = IF FatAfterData(s) /\ p < @
                                   THEN (IF @ - n < p THEN p ELSE @ - n) ELSE @]
              ELSE Stray(s)

\* The slot of the stream's FAT that byte position pos is the start of, or -1.
FatSlotAt(s, pos) ==
    IF pos >= s.fatPos /\ (pos - s.fatPos) % FatEntryLenOf(s.fmt) = 0
    THEN (pos - s.fatPos) \div FatEntryLenOf(s.fmt)
    ELSE -1

\* seekp(pos); insert(record length); write the record (WAD, EPF).
FatInsert(s, pos, rec) ==
    LET slot == FatSlotAt(s, pos) IN
    IF 0 <= slot /\ slot <= Len(s.dFAT)
    THEN [s EXCEPT !.len = @ + FatEntryLenOf(s.fmt), !.touched = TRUE,
                   !.dFAT = InsertAt(@, slot + 1, rec)]
    ELSE IF 0 <= pos /\ pos <= s.len
         THEN [Stray(s) EXCEPT !.len = @ + FatEntryLenOf(s.fmt),
                   !.fatPos = IF FatAfterData(s) /\ pos < @
                              THEN @ + FatEntryLenOf(s.fmt) ELSE @]
         ELSE Stray(s)

\* seekp(pos); remove(record length) (WAD, EPF).
FatRemove(s, pos) ==
    LET slot == FatSlotAt(s, pos) IN
    IF 0 <= slot /\ slot < Len(s.dFAT)
    THEN [s EXCEPT !.len = @ - FatEntryLenOf(s.fmt), !.touched = TRUE,
                   !.dFAT = RemoveAt(@, slot + 1)]
    ELSE IF 0 <= pos /\ pos + FatEntryLenOf(s.fmt) <= s.len
         THEN [Stray(s) EXCEPT !.len = @ - FatEntryLenOf(s.fmt),
                   !.fatPos = IF FatAfterData(s) /\ pos < @
                              THEN @ - FatEntryLenOf(s.fmt) ELSE @]
         ELSE Stray(s)

\* seekp(pos); write one field of the record that starts at pos - fieldOff.
FatWrite(s, pos, fieldOff, field, v) ==
    LET slot == FatSlotAt(s, pos - fieldOff) IN
    IF 0 <= slot /\ slot < Len(s.dFAT)
    THEN [s EXCEPT !.touched = TRUE, !.dFAT[slot + 1][field] = v]
    ELSE Stray(s)

\* An embedded record: seekp(pos); insert(header length) (DAT, RES).
HeaderInsert(s, pos, rec) ==
    IF \E k \in 1..(Len(s.dFAT) + 1) : ChunkStart(s, k) = pos
    THEN LET k == CHOOSE k \in 1..(Len(s.dFAT) + 1) : ChunkStart(s, k) = pos
         IN  [s EXCEPT !.len = @ + HeaderLenOf(s.fmt), !.touched = TRUE,
                       !.dFAT = InsertAt(@, k, rec)]
    ELSE IF 0 <= pos /\ pos <= s.len
         THEN [Stray(s) EXCEPT !.len = @ + HeaderLenOf(s.fmt)]
         ELSE Stray(s)

\* seekp(pos + fieldOff); write one field of the embedded record at pos.
HeaderWrite(s, pos, field, v) ==
    IF \E k \in 1..Len(s.dFAT) : ChunkStart(s, k) = pos
    THEN LET k == CHOOSE k \in 1..Len(s.dFAT) : ChunkStart(s, k) = pos
         IN  [s EXCEPT !.touched = TRUE, !.dFAT[k][field] = v]
    ELSE Stray(s)

\* A write of a header field of the backing stream.
WriteHeaderField(s, field, v) == [s EXCEPT !.touched = TRUE, ![field] = v]

(***************************************************************************)
(* The strategy's own FAT stream: RFF's buffered fatStream, G-D's psFAT.   *)
(* Slot idx is at idx * record length; a seek past the end finds no slot.  *)
(***************************************************************************)
FsInsert(s, idx, rec) ==
    IF 0 <= idx /\ idx <= Len(s.fatStream)
    THEN [s EXCEPT !.fatStream = InsertAt(@, idx + 1, rec)]
    ELSE [s EXCEPT !.stray = TRUE]

FsRemove(s, idx) ==
    IF 0 <= idx /\ idx < Len(s.fatStream)
    THEN [s EXCEPT !.fatStream = RemoveAt(@, idx + 1)]
    ELSE [s EXCEPT !.stray = TRUE]

FsWrite(s, idx, field, v) ==
    IF 0 <= idx /\ idx < Len(s.fatStream)
    THEN [s EXCEPT !.fatStream[idx + 1][field] = v]
    ELSE [s EXCEPT !.stray = TRUE]


(***************************************************************************)
(* iIndex is an unsigned int.  The model keeps, of its value modulo 2^32,  *)
(* the representative nearest to zero: -1 stands for 4294967295.  Adding   *)
(* and comparing for equality are then those of the unsigned type, and a   *)
(* negative representative is an index beyond every slot of any FAT.       *)
(***************************************************************************)
SlotPos(base, idx, recLen) == IF idx < 0 THEN -1 ELSE base + idx * recLen

isValid(s, h) == h \in 1..Len(s.ent) /\ s.ent[h].bValid

(***************************************************************************)
(* updateFileOffset                                                        *)
(***************************************************************************)
WAD_updateFileOffset(s, h) ==
    FatWrite(s, SlotPos(WAD_HEADER_LEN, s.ent[h].iIndex, WAD_FAT_ENTRY_LEN),
             0, "off", s.ent[h].iOffset)

RFF_updateFileOffset(s, h) ==
    [FsWrite(s, s.ent[h].iIndex, "off", s.ent[h].iOffset)
        EXCEPT !.modifiedFAT = TRUE]

\* The call of the hook.  s.hooked keeps, for the engine call in progress,
\* the entry of each call of updateFileOffset as the hook finds it.
updateFileOffset(s, h) ==
    LET s0 == [s EXCEPT !.hooked = Append(@, [h |-> h,
                                             iOffset |-> s.ent[h].iOffset,
                                             iIndex |-> s.ent[h].iIndex])]
    IN  CASE s.fmt = "wad" -> WAD_updateFileOffset(s0, h)
          [] s.fmt = "rff" -> RFF_updateFileOffset(s0, h)
          [] OTHER -> s0

(***************************************************************************)
(* FATArchive::cleanOpenSubstreams and FATArchive::shiftFiles              *)
(***************************************************************************)
\* A clean-up that erases the first expired reference and does not restart.
cleanFirstExpired(subs) ==
    IF \E i \in 1..Len(subs) : ~subs[i].alive
    THEN RemoveAt(subs, CHOOSE i \in 1..Len(subs) :
                           ~subs[i].alive /\ \A j \in 1..(i - 1) : subs[j].alive)
    ELSE subs

RECURSIVE cleanOpenSubstreams(_)
cleanOpenSubstreams(subs) ==
    IF \E i \in 1..Len(subs) : ~subs[i].alive
    THEN LET i == CHOOSE i \in 1..Len(subs) :
                      ~subs[i].alive /\ \A j \in 1..(i - 1) : subs[j].alive
         IN  cleanOpenSubstreams(RemoveAt(subs, i))
    ELSE subs

\* A test that leaves out the entries that start exactly at offStart.
entryShiftedPastStart(e, isSkip, offStart) == ~isSkip /\ e.iOffset > offStart

\* Whether shiftFiles moves the entry: it is not the skipped one and it
\* starts at or after offStart.
entryShifted(e, isSkip, offStart) == ~isSkip /\ e.iOffset >= offStart

\* Whether shiftFiles relocates the sub-stream.
subShifted(sub, offStart) == sub.off >= offStart

\* An entry loop that calls the hook before it updates the index.
RECURSIVE shiftEntriesHookBeforeIndex(_, _, _, _, _, _)
shiftEntriesHookBeforeIndex(s, i, fatSkip, offStart, deltaOffset, deltaIndex) ==
    IF i > Len(s.vcFAT) THEN s
    ELSE LET h == s.vcFAT[i] IN
         IF entryShifted(s.ent[h], h = fatSkip, offStart)
         THEN LET s1 == updateFileOffset(
                            [s EXCEPT !.ent[h].iOffset = @ + deltaOffset], h)
                  s2 == [s1 EXCEPT !.ent[h].iIndex = @ + deltaIndex]
              IN  shiftEntriesHookBeforeIndex(s2, i + 1, fatSkip, offStart,
                                              deltaOffset, deltaIndex)
         ELSE shiftEntriesHookBeforeIndex(s, i + 1, fatSkip, offStart,
                                          deltaOffset, deltaIndex)

RECURSIVE shiftEntries(_, _, _, _, _, _)
shiftEntries(s, i, fatSkip, offStart, deltaOffset, deltaIndex) ==
    IF i > Len(s.vcFAT) THEN s
    ELSE LET h == s.vcFAT[i] IN
         IF entryShifted(s.ent[h], h = fatSkip, offStart)
         THEN LET s1 == [s EXCEPT !.ent[h].iOffset = @ + deltaOffset,
                                  !.ent[h].iIndex = @ + deltaIndex]
              IN  shiftEntries(updateFileOffset(s1, h), i + 1, fatSkip,
                               offStart, deltaOffset, deltaIndex)
         ELSE shiftEntries(s, i + 1, fatSkip, offStart, deltaOffset, deltaIndex)

shiftSubStreams(subs, offStart, deltaOffset) ==
    LET moved == [i \in 1..Len(subs) |->
                    IF subs[i].alive /\ subShifted(subs[i], offStart)
                    THEN [subs[i] EXCEPT !.off = @ + deltaOffset]
                    ELSE subs[i]]
    IN  IF \E i \in 1..Len(subs) : ~subs[i].alive
        THEN cleanOpenSubstreams(moved)
        ELSE moved

shiftFiles(s, fatSkip, offStart, deltaOffset, deltaIndex) ==
    LET s1 == shiftEntries(s, 1, fatSkip, offStart, deltaOffset, deltaIndex)
    IN  [s1 EXCEPT !.vcSubStream = shiftSubStreams(@, offStart, deltaOffset)]


(***************************************************************************)
(* updateFileCount, updateFATOffset, updateFileSize                        *)
(***************************************************************************)
updateFileCount(s, newCount) == WriteHeaderField(s, "hdrCount", newCount)

EPF_updateFATOffset(s) == WriteHeaderField(s, "hdrFAT", s.offFAT)

WAD_updateFileSize(s, h) ==
    FatWrite(s, SlotPos(WAD_HEADER_LEN, s.ent[h].iIndex, WAD_FAT_ENTRY_LEN) + 4,
             4, "size", s.ent[h].storedSize)

RFF_updateFileSize(s, h) ==
    [FsWrite(s, s.ent[h].iIndex, "size", s.ent[h].storedSize)
        EXCEPT !.modifiedFAT = TRUE]

EPF_updateFileSize(s, h, sizeDelta) ==
    LET s1 == FatWrite(s, SlotPos(s.offFAT, s.ent[h].iIndex, EPF_FAT_ENTRY_LEN)
                              + EPF_FAT_FILESIZE_OFFSET,
                       EPF_FAT_FILESIZE_OFFSET, "size", s.ent[h].storedSize)
    IN  EPF_updateFATOffset([s1 EXCEPT !.offFAT = @ + sizeDelta])

DAT_updateFileSize(s, h) ==
    IF s.ent[h].storedSize > 65535
    THEN [s EXCEPT !.threw = TRUE]
    ELSE HeaderWrite(s, s.ent[h].iOffset, "size", u16le(s.ent[h].storedSize))

GD_updateFileSize(s, h) ==
    FsWrite(s, s.ent[h].iIndex, "size", u16le(s.ent[h].storedSize))

\* u32le(iSize) overwrites the whole field; the sizes are below 2^31, so
\* bit 31 is written as 0.
RES_updateFileSize(s, h) ==
    LET s1 == HeaderWrite(s, s.ent[h].iOffset, "size", s.ent[h].storedSize)
    IN  IF s1.stray THEN s1
        ELSE HeaderWrite(s1, s.ent[h].iOffset, "type", 0)

updateFileSize(s, h, sizeDelta) ==
    CASE s.fmt = "wad" -> WAD_updateFileSize(s, h)
      [] s.fmt = "rff" -> RFF_updateFileSize(s, h)
      [] s.fmt = "epf" -> EPF_updateFileSize(s, h, sizeDelta)
      [] s.fmt = "dat" -> DAT_updateFileSize(s, h)
      [] s.fmt = "gd" -> GD_updateFileSize(s, h)
      [] OTHER -> RES_updateFileSize(s, h)

(***************************************************************************)
(* Names: RFF's 8.3 split and DAT's extension <-> type number table.       *)
(***************************************************************************)
\* find_last_of('.'): the 0-based place of the last dot, -1 for npos.
posDotOf(full) ==
    IF \E i \in 1..Len(full) : full[i] = "."
    THEN (CHOOSE i \in 1..Len(full) :
              full[i] = "." /\ \A j \in (i + 1)..Len(full) : full[j] # ".") - 1
    ELSE -1

\* The three tests of splitFilename, in size_t arithmetic: with npos the
\* difference full.length() - posDot wraps to full.length() + 1, and npos is
\* larger than 8.
RFF_splitThrows(full) ==
    LET posDot == posDotOf(full) IN
    \/ posDot = -1 /\ Len(full) > 8
    \/ Len(full) - posDot > 4
    \/ posDot = -1 \/ posDot > 8

RFF_splitExt(full) ==
    LET posDot == posDotOf(full) IN
    IF posDot # -1
    THEN SubSeq(full, posDot + 2, Min(Len(full), posDot + 4))
    ELSE <<>>

RFF_splitBase(full) ==
    LET posDot == posDotOf(full) IN
    IF posDot # -1 THEN SubSeq(full, 1, posDot) ELSE full

DAT_EXT == << <<".", "m", "i", "f">>, <<".", "m", "b", "g">>,
              <<".", "m", "f", "g">>, <<".", "t", "b", "g">>,
              <<".", "t", "f", "g">>, <<".", "t", "b", "n">>,
              <<".", "s", "g", "l">>, <<".", "m", "s", "p">>,
              <<".", "s", "n", "d">>, <<".", "p", "b", "g">>,
              <<".", "p", "f", "g">>, <<".", "p", "a", "l">>,
              <<".", "p", "b", "n">>, <<".", "s", "p", "r">> >>

DAT_TYPENUM == <<0, 1, 2, 3, 4, 5, 6, 7, 8, 12, 13, 14, 16, 64>>

\* strName.substr(newLen - 4) throws std::out_of_range when newLen < 4.
DAT_substrThrows(name) == Len(name) < 4

DAT_extOf(name) == SubSeq(name, Len(name) - 3, Len(name))

DAT_typeNumOf(name) ==
    LET ext == DAT_extOf(name) IN
    IF \E k \in 1..Len(DAT_EXT) : icasecmp(ext, DAT_EXT[k])
    THEN DAT_TYPENUM[CHOOSE k \in 1..Len(DAT_EXT) :
             /\ icasecmp(ext, DAT_EXT[k])
             /\ \A j \in 1..(k - 1) : ~icasecmp(ext, DAT_EXT[j])]
    ELSE 32

\* The name written to the .dat file: the extension is chopped off unless the
\* type is 32 (generic) or 8 (.snd).
DAT_nativeName(name) ==
    IF DAT_typeNumOf(name) # 32 /\ DAT_typeNumOf(name) # 8
    THEN SubSeq(name, 1, Len(name) - 4)
    ELSE name

Digits == <<"0", "1", "2", "3", "4", "5", "6", "7", "8", "9">>

RECURSIVE createString(_)
createString(n) ==
    IF n < 10 THEN <<Digits[n + 1]>>
    ELSE createString(n \div 10) \o <<Digits[(n % 10) + 1]>>

\* The name the constructor gives an entry of the stored name and type.
DAT_loadedName(name, type) ==
    IF \E k \in 1..Len(DAT_TYPENUM) : DAT_TYPENUM[k] = type /\ type # 8
    THEN name \o DAT_EXT[CHOOSE k \in 1..Len(DAT_TYPENUM) : DAT_TYPENUM[k] = type]
    ELSE IF type = 8 \/ type = 32 THEN name
    ELSE name \o <<".">> \o createString(type)


(***************************************************************************)
(* updateFileName                                                          *)
(***************************************************************************)
WAD_updateFileName(s, h, strNewName) ==
    FatWrite(s, SlotPos(WAD_HEADER_LEN, s.ent[h].iIndex, WAD_FAT_ENTRY_LEN) + 8,
             8, "name", nullPadded(strNewName, WAD_FILENAME_FIELD_LEN))

RFF_updateFileName(s, h, strNewName) ==
    IF RFF_splitThrows(strNewName)
    THEN [s EXCEPT !.threw = TRUE]
    ELSE LET s1 == FsWrite(s, s.ent[h].iIndex, "ext",
                           nullPadded(RFF_splitExt(strNewName), 3))
             s2 == FsWrite(s1, s.ent[h].iIndex, "name",
                           nullPadded(RFF_splitBase(strNewName), 8))
         IN  [s2 EXCEPT !.modifiedFAT = TRUE]

EPF_updateFileName(s, h, strNewName) ==
    FatWrite(s, SlotPos(s.offFAT, s.ent[h].iIndex, EPF_FAT_ENTRY_LEN),
             0, "name", nullPadded(strNewName, EPF_FILENAME_FIELD_LEN))

DAT_updateFileName(s, h, strNewName) ==
    IF DAT_substrThrows(strNewName)
    THEN [s EXCEPT !.threw = TRUE]
    ELSE LET s1 == HeaderWrite(s, s.ent[h].iOffset, "type",
                               DAT_typeNumOf(strNewName))
         IN  HeaderWrite(s1, s.ent[h].iOffset, "name",
                 nullPadded(DAT_nativeName(strNewName), DAT_FILENAME_FIELD_LEN))

GD_updateFileName(s, h, strNewName) == [s EXCEPT !.threw = TRUE]

RES_updateFileName(s, h, strNewName) ==
    HeaderWrite(s, s.ent[h].iOffset, "name",
                nullPadded(strNewName, RES_MAX_FILENAME_LEN))

updateFileName(s, h, strNewName) ==
    CASE s.fmt = "wad" -> WAD_updateFileName(s, h, strNewName)
      [] s.fmt = "rff" -> RFF_updateFileName(s, h, strNewName)
      [] s.fmt = "epf" -> EPF_updateFileName(s, h, strNewName)
      [] s.fmt = "dat" -> DAT_updateFileName(s, h, strNewName)
      [] s.fmt = "gd" -> GD_updateFileName(s, h, strNewName)
      [] OTHER -> RES_updateFileName(s, h, strNewName)

(***************************************************************************)
(* preInsertFile / postInsertFile.  h is the entry being inserted; it is   *)
(* not in vcFAT while preInsertFile runs.                                  *)
(***************************************************************************)
WAD_preInsertFile(s, h) ==
    LET s1 == [s EXCEPT !.ent[h].lenHeader = 0,
                        !.ent[h].iOffset = @ + WAD_FAT_ENTRY_LEN,
                        !.ent[h].strName = uppercase(@)]
        e == s1.ent[h]
        s2 == FatInsert(s1, SlotPos(WAD_HEADER_LEN, e.iIndex, WAD_FAT_ENTRY_LEN),
                        FatRec(e.iOffset, e.storedSize,
                               nullPadded(e.strName, WAD_FILENAME_FIELD_LEN),
                               <<>>, 0))
        s3 == shiftFiles(s2, 0,
                         WAD_HEADER_LEN + Len(s2.vcFAT) * WAD_FAT_ENTRY_LEN,
                         WAD_FAT_ENTRY_LEN, 0)
    IN  updateFileCount(s3, Len(s3.vcFAT) + 1)

\* A preInsertFile that marks the FAT modified before it looks at the name.
RFF_preInsertFileMarksFirst(s, h) ==
    [s EXCEPT !.modifiedFAT = TRUE,
              !.threw = RFF_splitThrows(uppercase(s.ent[h].strName))]

\* A preInsertFile that leaves the Encrypted attribute on the new entry.
RFF_insertAttrKept(fAttr, version) == fAttr

\* The attributes preInsertFile leaves on the new entry: a version without
\* encryption drops Encrypted.
RFF_insertAttr(fAttr, version) ==
    IF "Encrypted" \in fAttr /\ version < RFF_VERSION_3_1
    THEN fAttr \ {"Encrypted"}
    ELSE fAttr

RFF_preInsertFile(s, h) ==
    LET wantsEnc == "Encrypted" \in s.ent[h].fAttr
        flags == IF wantsEnc /\ s.version >= RFF_VERSION_3_1
                 THEN RFF_FILE_ENCRYPTED ELSE 0
        s1 == [s EXCEPT !.ent[h].lenHeader = 0,
                        !.ent[h].fAttr = RFF_insertAttr(@, s.version),
                        !.ent[h].strName = uppercase(@)]
        e == s1.ent[h]
    IN  IF RFF_splitThrows(e.strName)
        THEN [s1 EXCEPT !.threw = TRUE]
        ELSE [FsInsert(s1, e.iIndex,
                       FatRec(e.iOffset, e.storedSize,
                              nullPadded(RFF_splitBase(e.strName), 8),
                              nullPadded(RFF_splitExt(e.strName), 3), flags))
                 EXCEPT !.modifiedFAT = TRUE]

EPF_preInsertFile(s, h) == [s EXCEPT !.ent[h].lenHeader = 0]

DAT_preInsertFile(s, h) ==
    IF DAT_substrThrows(s.ent[h].strName)
    THEN [s EXCEPT !.threw = TRUE]
    ELSE LET s1 == [s EXCEPT !.ent[h].lenHeader = DAT_EFAT_ENTRY_LEN]
             s2 == HeaderInsert(s1, s1.ent[h].iOffset, BlankRec)
         IN  shiftFiles(s2, 0, s2.ent[h].iOffset, s2.ent[h].lenHeader, 0)

GD_preInsertFile(s, h) ==
    IF s.numFiles + 1 >= s.maxFiles
    THEN [s EXCEPT !.threw = TRUE]
    ELSE LET s1 == [s EXCEPT !.ent[h].lenHeader = 0]
             s2 == FsRemove(s1, Len(s1.fatStream) - 1)
             s3 == FsInsert(s2, s2.ent[h].iIndex,
                            FatRec(0, u16le(s2.ent[h].storedSize), <<>>, <<>>, 0))
         IN  [s3 EXCEPT !.numFiles = @ + 1]

RES_preInsertFile(s, h) ==
    LET s1 == [s EXCEPT !.ent[h].lenHeader = RES_FAT_ENTRY_LEN,
                        !.ent[h].strName = uppercase(@)]
        e == s1.ent[h]
        s2 == HeaderInsert(s1, e.iOffset,
                           FatRec(0, e.storedSize,
                                  nullPadded(e.strName, RES_MAX_FILENAME_LEN),
                                  <<>>, 0))
    IN  shiftFiles(s2, 0, e.iOffset, e.lenHeader, 0)

preInsertFile(s, h) ==
    CASE s.fmt = "wad" -> WAD_preInsertFile(s, h)
      [] s.fmt = "rff" -> RFF_preInsertFile(s, h)
      [] s.fmt = "epf" -> EPF_preInsertFile(s, h)
      [] s.fmt = "dat" -> DAT_preInsertFile(s, h)
      [] s.fmt = "gd" -> GD_preInsertFile(s, h)
      [] OTHER -> RES_preInsertFile(s, h)

RFF_postInsertFile(s, h) == updateFileCount(s, Len(s.vcFAT))

EPF_postInsertFile(s, h) ==
    LET s1 == [s EXCEPT !.offFAT = @ + s.ent[h].storedSize,
                        !.ent[h].strName = uppercase(@)]
        e == s1.ent[h]
        s2 == FatInsert(s1, SlotPos(s1.offFAT, e.iIndex, EPF_FAT_ENTRY_LEN),
                        FatRec(0, e.storedSize,
                               nullPadded(e.strName, EPF_FILENAME_FIELD_LEN),
                               <<>>, 0))
    IN  updateFileCount(EPF_updateFATOffset(s2), Len(s2.vcFAT))

DAT_postInsertFile(s, h) ==
    LET name == s.ent[h].strName
        s1 == [s EXCEPT !.ent[h].strName = DAT_nativeName(name)]
        s2 == HeaderWrite(s1, s1.ent[h].iOffset, "type", DAT_typeNumOf(name))
        s3 == HeaderWrite(s2, s2.ent[h].iOffset, "size",
                          u16le(s2.ent[h].storedSize))
    IN  HeaderWrite(s3, s3.ent[h].iOffset, "name",
                    nullPadded(s3.ent[h].strName, DAT_FILENAME_FIELD_LEN))

postInsertFile(s, h) ==
    CASE s.fmt = "rff" -> RFF_postInsertFile(s, h)
      [] s.fmt = "epf" -> EPF_postInsertFile(s, h)
      [] s.fmt = "dat" -> DAT_postInsertFile(s, h)
      [] OTHER -> s

(***************************************************************************)
(* preRemoveFile / postRemoveFile.  h is still in vcFAT while              *)
(* preRemoveFile runs.                                                     *)
(***************************************************************************)
WAD_preRemoveFile(s, h) ==
    LET s1 == shiftFiles(s, 0,
                         WAD_HEADER_LEN + Len(s.vcFAT) * WAD_FAT_ENTRY_LEN,
                         -WAD_FAT_ENTRY_LEN, 0)
        s2 == FatRemove(s1, SlotPos(WAD_HEADER_LEN, s1.ent[h].iIndex,
                                    WAD_FAT_ENTRY_LEN))
    IN  updateFileCount(s2, Len(s2.vcFAT) - 1)

\* A preRemoveFile that does not raise modifiedFAT.
RFF_preRemoveFileKeepsFlag(s, h) == FsRemove(s, s.ent[h].iIndex)

RFF_preRemoveFile(s, h) ==
    [FsRemove(s, s.ent[h].iIndex) EXCEPT !.modifiedFAT = TRUE]

\* A preRemoveFile that writes the size of the vector, which still holds the
\* entry being removed.
EPF_preRemoveFileCountsRemoved(s, h) ==
    LET s1 == FatRemove(s, SlotPos(s.offFAT, s.ent[h].iIndex, EPF_FAT_ENTRY_LEN))
        s2 == [s1 EXCEPT !.offFAT = @ - s.ent[h].storedSize]
    IN  updateFileCount(EPF_updateFATOffset(s2), Len(s2.vcFAT))

EPF_preRemoveFile(s, h) ==
    LET s1 == FatRemove(s, SlotPos(s.offFAT, s.ent[h].iIndex, EPF_FAT_ENTRY_LEN))
        s2 == [s1 EXCEPT !.offFAT = @ - s.ent[h].storedSize]
    IN  updateFileCount(EPF_updateFATOffset(s2), Len(s2.vcFAT) - 1)

GD_preRemoveFile(s, h) ==
    LET s1 == FsRemove(s, s.ent[h].iIndex)
        s2 == FsInsert(s1, Len(s1.fatStream), BlankRec)
    IN  [s2 EXCEPT !.numFiles = @ - 1]

preRemoveFile(s, h) ==
    CASE s.fmt = "wad" -> WAD_preRemoveFile(s, h)
      [] s.fmt = "rff" -> RFF_preRemoveFile(s, h)
      [] s.fmt = "epf" -> EPF_preRemoveFile(s, h)
      [] s.fmt = "gd" -> GD_preRemoveFile(s, h)
      [] OTHER -> s

RFF_postRemoveFile(s, h) == updateFileCount(s, Len(s.vcFAT))

postRemoveFile(s, h) ==
    CASE s.fmt = "rff" -> RFF_postRemoveFile(s, h)
      [] OTHER -> s


(***************************************************************************)
(* The engine: FATArchive::open, insert, remove, resize.                   *)
(* A handle (EntryPtr) is a place in s.ent; 0 is the null handle.  s.vcFAT *)
(* holds the handles of the file vector in vector order.                   *)
(***************************************************************************)
PosInVector(s, h) == CHOOSE i \in 1..Len(s.vcFAT) : s.vcFAT[i] = h

\* A sub-stream: its window and whether a reference to it is still held.  h
\* records the handle it was opened on.
open(s, h) ==
    [s EXCEPT !.nOpened = @ + 1,
              !.vcSubStream = Append(@,
        [h |-> h, off |-> s.ent[h].iOffset + s.ent[h].lenHeader,
         len |-> s.ent[h].storedSize, alive |-> TRUE, id |-> s.nOpened + 1])]

\* A placement that gives the new entry the index after that of the entry it
\* is put before.
placeNewFileBehind(s, idBeforeThis, pNewFile) ==
    IF isValid(s, idBeforeThis)
    THEN [pNewFile EXCEPT !.iOffset = s.ent[idBeforeThis].iOffset,
                          !.iIndex = s.ent[idBeforeThis].iIndex + 1]
    ELSE IF Len(s.vcFAT) > 0
         THEN LET last == s.ent[s.vcFAT[Len(s.vcFAT)]]
              IN  [pNewFile EXCEPT
                      !.iOffset = last.iOffset + last.lenHeader + last.storedSize,
                      !.iIndex = last.iIndex + 1]
         ELSE [pNewFile EXCEPT !.iOffset = offFirstFile(s.fmt), !.iIndex = 0]

\* Where insert() places the new entry before the strategy sees it.
placeNewFile(s, idBeforeThis, pNewFile) ==
    IF isValid(s, idBeforeThis)
    THEN [pNewFile EXCEPT !.iOffset = s.ent[idBeforeThis].iOffset,
                          !.iIndex = s.ent[idBeforeThis].iIndex]
    ELSE IF Len(s.vcFAT) > 0
         THEN LET last == s.ent[s.vcFAT[Len(s.vcFAT)]]
              IN  [pNewFile EXCEPT
                      !.iOffset = last.iOffset + last.lenHeader + last.storedSize,
                      !.iIndex = last.iIndex + 1]
         ELSE [pNewFile EXCEPT !.iOffset = offFirstFile(s.fmt), !.iIndex = 0]

insert(s, idBeforeThis, strFilename, iSize, attr) ==
    LET h == Len(s.ent) + 1
        s1 == [s EXCEPT !.ent = Append(@,
                  placeNewFile(s, idBeforeThis,
                               NewEntry(strFilename, iSize, attr)))]
        s2 == preInsertFile(s1, h)
    IN  IF s2.threw
        THEN [s2 EXCEPT !.ent = SubSeq(@, 1, h - 1)]
        ELSE LET s3 == IF isValid(s2, idBeforeThis)
                       THEN LET sh == shiftFiles(s2, h,
                                         s2.ent[h].iOffset + s2.ent[h].lenHeader,
                                         s2.ent[h].storedSize, 1)
                            IN  [sh EXCEPT !.vcFAT =
                                   InsertAt(@, PosInVector(sh, idBeforeThis), h)]
                       ELSE [s2 EXCEPT !.vcFAT = Append(@, h)]
                 s4 == StreamInsert(s3, s3.ent[h].iOffset + s3.ent[h].lenHeader,
                                    s3.ent[h].storedSize)
             IN  postInsertFile(s4, h)

\* A remove() that leaves the entry marked valid.
markRemovedKeepsValid(e) == e

\* remove() marks the entry invalid for the code that still holds it.
markRemoved(e) == [e EXCEPT !.bValid = FALSE]

\* remove() asserts isValid(id): the caller of this operator has checked it.
remove(s, h) ==
    LET s1 == preRemoveFile(s, h)
        s2 == [s1 EXCEPT !.vcFAT = RemoveAt(@, PosInVector(s1, h))]
        s3 == shiftFiles(s2, h, s2.ent[h].iOffset,
                         -(s2.ent[h].storedSize + s2.ent[h].lenHeader), -1)
        s4 == StreamRemove(s3, s3.ent[h].iOffset,
                           s3.ent[h].storedSize + s3.ent[h].lenHeader)
        s5 == [s4 EXCEPT !.ent[h] = markRemoved(@)]
    IN  postRemoveFile(s5, h)

\* Which sub-streams resize() gives the new size.
resizeMatches(sub, e) == sub.off = e.iOffset

\* resize() asserts isValid(id): the caller of this operator has checked it.
resize(s, h, iNewSize) ==
    LET e == s.ent[h]
        iDelta == iNewSize - e.storedSize
        iStart == IF iDelta > 0
                  THEN e.iOffset + e.lenHeader + e.storedSize
                  ELSE e.iOffset + e.lenHeader + iNewSize
    IN  IF iDelta = 0 THEN s
        ELSE LET s1 == IF iDelta > 0 THEN StreamInsert(s, iStart, iDelta)
                       ELSE StreamRemove(s, iStart, -iDelta)
                 s2 == [s1 EXCEPT !.ent[h].storedSize = iNewSize]
                 s3 == updateFileSize(s2, h, iDelta)
             IN  IF s3.threw THEN s3
                 ELSE LET s4 == shiftFiles(s3, h, iStart, iDelta, 0)
                      IN  [s4 EXCEPT !.vcSubStream =
                             [i \in 1..Len(@) |->
                                IF @[i].alive /\ resizeMatches(@[i], s4.ent[h])
                                THEN [@[i] EXCEPT !.len = iNewSize]
                                ELSE @[i]]]


(***************************************************************************)
(* rename and attribute of the engine, flush of the strategies.            *)
(***************************************************************************)
lenMaxFilename(fmt) ==
    CASE fmt = "wad" -> WAD_FILENAME_FIELD_LEN
      [] fmt = "rff" -> ARCH_STD_DOS_FILENAMES
      [] fmt = "epf" -> EPF_MAX_FILENAME_LEN
      [] fmt = "dat" -> DAT_MAX_FILENAME_LEN
      [] fmt = "gd" -> 0
      [] OTHER -> RES_MAX_FILENAME_LEN

\* rename(): validate the length, call updateFileName, on success update the
\* in-memory name.
rename(s, h, strNewName) ==
    IF Len(strNewName) > lenMaxFilename(s.fmt)
    THEN [s EXCEPT !.threw = TRUE]
    ELSE LET s1 == updateFileName(s, h, strNewName)
         IN  IF s1.threw THEN s1
             ELSE [s1 EXCEPT !.ent[h].strName = strNewName]

\* Archive::attribute(): store the value and raise the changed flag.
attribute(s, newValue) == [s EXCEPT !.attrValue = newValue, !.attrChanged = TRUE]

\* The version an enum value of the Version attribute stands for.
RFF_versionOf(enumValue) ==
    CASE enumValue = 0 -> RFF_VERSION_2_0
      [] enumValue = 1 -> RFF_VERSION_3_1
      [] OTHER -> 0

RFF_hasEncrypted(s) ==
    \E i \in 1..Len(s.vcFAT) : "Encrypted" \in s.ent[s.vcFAT[i]].fAttr

\* An attribute() that changes the version without looking at the files.
RFF_attributeUnchecked(s, newValue) ==
    LET s1 == attribute(s, newValue)
    IN  [WriteHeaderField([s1 EXCEPT !.version = RFF_versionOf(s1.attrValue)],
                          "hdrVersion", RFF_versionOf(s1.attrValue))
            EXCEPT !.attrChanged = FALSE]

\* Archive_RFF_Blood::attribute() for the Version attribute.  The header is
\* written at the cursor seekg(4) leaves.
RFF_attribute(s, newValue) ==
    IF RFF_versionOf(newValue) < RFF_VERSION_3_1 /\ RFF_hasEncrypted(s)
    THEN [s EXCEPT !.threw = TRUE]
    ELSE LET s1 == attribute(s, newValue)
         IN  IF s1.attrChanged
             THEN LET s2 == [s1 EXCEPT !.version = RFF_versionOf(s1.attrValue)]
                  IN  [WriteHeaderField(s2, "hdrVersion", u16le(s2.version))
                          EXCEPT !.attrChanged = FALSE]
             ELSE s1

WAD_flush(s) ==
    IF s.attrChanged
    THEN [WriteHeaderField(s, "hdrType", s.attrValue) EXCEPT !.attrChanged = FALSE]
    ELSE s

\* getDescOffset(): the end of the last file of the vector.
getDescOffset(s) ==
    IF Len(s.vcFAT) > 0
    THEN s.ent[s.vcFAT[Len(s.vcFAT)]].iOffset
           + s.ent[s.vcFAT[Len(s.vcFAT)]].storedSize
    ELSE offFirstFile(s.fmt)

\* The description is a text attribute; attrValue is the length of the text.
EPF_flush(s) ==
    IF s.attrChanged
    THEN LET offDesc == getDescOffset(s)
             sizeDesc == s.offFAT - offDesc
             sizeDelta == s.attrValue - sizeDesc
             s1 == IF offDesc = s.fatPos - s.descLen /\ sizeDesc = s.descLen
                   THEN [s EXCEPT !.len = @ + sizeDelta, !.touched = TRUE,
                                  !.fatPos = @ + sizeDelta,
                                  !.descLen = s.attrValue]
                   ELSE Stray(s)
             s2 == [s1 EXCEPT !.offFAT = @ + sizeDelta]
         IN  [EPF_updateFATOffset(s2) EXCEPT !.attrChanged = FALSE]
    ELSE s

\* A flush() that rewrites the FAT whether or not it was modified.
RFF_alwaysWritesFAT(s) == TRUE

\* flush() rewrites the FAT only when it was modified.
RFF_writesFAT(s) == s.modifiedFAT

\* The key filter_rff_crypt is given for a FAT at offFAT under the version;
\* -1 when the version stores the FAT as it is.
RFF_fatKey(version, offFAT) ==
    IF version >= RFF_VERSION_3_1 THEN offFAT % 256 ELSE -1

RFF_flush(s) ==
    IF RFF_writesFAT(s)
    THEN LET offFAT == IF Len(s.vcFAT) = 0 THEN RFF_HEADER_LEN
                       ELSE LET pLast == s.ent[s.vcFAT[Len(s.vcFAT)]]
                            IN  pLast.iOffset + pLast.lenHeader + pLast.storedSize
             s1 == WriteHeaderField(s, "hdrFAT", offFAT)
             offEndFAT == offFAT + Len(s.vcFAT) * RFF_FAT_ENTRY_LEN
             key == RFF_fatKey(s.version, offFAT)
             s2 == IF offFAT = s1.fatPos /\ Len(s1.fatStream) = Len(s1.vcFAT)
                   THEN [s1 EXCEPT !.len = offEndFAT, !.dFAT = s1.fatStream,
                                   !.dFatKey = key]
                   ELSE [Stray(s1) EXCEPT !.len = offEndFAT, !.dFatKey = key]
         IN  [s2 EXCEPT !.fatWritten = s.fatStream, !.modifiedFAT = FALSE]
    ELSE s

flush(s) ==
    CASE s.fmt = "wad" -> WAD_flush(s)
      [] s.fmt = "epf" -> EPF_flush(s)
      [] s.fmt = "rff" -> RFF_flush(s)
      [] OTHER -> s


(***************************************************************************)
(* The archive after construction: what each strategy's constructor reads  *)
(* from a well-formed file of Len(sizes) entries.                          *)
(***************************************************************************)
InitDescLen == 1     \* length of the description of the loaded EPF archive

DatInitTypes == {0, 9, 32}   \* type numbers of the loaded DAT entries

RECURSIVE OffsetAt(_, _, _, _)
OffsetAt(first, hdr, sizes, i) ==
    IF i <= 1 THEN first
    ELSE OffsetAt(first, hdr, sizes, i - 1) + hdr + sizes[i - 1]

\* The name field of the i-th FAT record of the loaded file.
StoredName(fmt, i) ==
    CASE fmt = "dat" -> <<UpperChars[i], UpperChars[i]>>
      [] fmt = "gd" -> <<>>
      [] OTHER -> <<UpperChars[i]>>

LoadedName(fmt, i, type) ==
    CASE fmt = "rff" -> StoredName(fmt, i) \o <<".", "X">>
      [] fmt = "dat" -> DAT_loadedName(StoredName(fmt, i), type)
      [] OTHER -> StoredName(fmt, i)

\* version and enc are those of an RFF file: its version field and whether
\* its first file carries the encrypted flag.  tail is that of a WAD file:
\* whether its header places the FAT behind the file data.  folder is that
\* of a RES file: whether bit 31 of the size field of its first file is set.
LoadedArchive(fmt, sizes, type, version, enc, tail, folder) ==
    LET N == Len(sizes)
        isEnc(i) == enc /\ i = 1
        isFolder(i) == folder /\ i = 1
        hdr == HeaderLenOf(fmt)
        first == IF fmt = "wad" /\ ~tail
                 THEN WAD_HEADER_LEN + N * WAD_FAT_ENTRY_LEN
                 ELSE offFirstFile(fmt)
        off(i) == OffsetAt(first, hdr, sizes, i)
        ents == [i \in 1..N |->
                   [strName |-> LoadedName(fmt, i, type), storedSize |-> sizes[i],
                    bValid |-> TRUE, iOffset |-> off(i), iIndex |-> i - 1,
                    lenHeader |-> hdr,
                    fAttr |-> CASE isEnc(i) -> {"Encrypted"}
                                [] isFolder(i) -> {"Folder"}
                                [] OTHER -> {}]]
        recs == [i \in 1..N |->
                   [off |-> IF fmt \in {"wad", "rff"} THEN off(i) ELSE 0,
                    size |-> sizes[i],
                    name |-> StoredName(fmt, i),
                    ext |-> IF fmt = "rff" THEN <<"X">> ELSE <<>>,
                    type |-> CASE fmt = "dat" -> type
                               [] isEnc(i) -> RFF_FILE_ENCRYPTED
                               [] isFolder(i) -> 1
                               [] OTHER -> 0,
                    dataLen |-> IF hdr > 0 THEN sizes[i] ELSE 0]]
        descLen == IF fmt = "epf" THEN InitDescLen ELSE 0
        fatPos == CASE fmt = "wad" /\ ~tail -> WAD_HEADER_LEN
                    [] fmt \in {"wad", "rff", "epf"} -> off(N + 1) + descLen
                    [] OTHER -> 0
        fatLen == IF fmt \in {"rff", "epf"} \/ tail
                  THEN N * FatEntryLenOf(fmt) ELSE 0
    IN  [fmt |-> fmt, ent |-> ents, vcFAT |-> [i \in 1..N |-> i],
         vcSubStream |-> <<>>, nOpened |-> 0,
         len |-> off(N + 1) + descLen + fatLen,
         dFAT |-> IF fmt = "gd" THEN <<>> ELSE recs,
         dFatKey |-> IF fmt = "rff" THEN RFF_fatKey(version, fatPos) ELSE -1,
         fatWritten |-> IF fmt = "rff" THEN recs ELSE <<>>,
         fatPos |-> fatPos, descLen |-> descLen, fatTail |-> tail,
         hdrCount |-> IF fmt \in {"wad", "rff", "epf"} THEN N ELSE 0,
         hdrFAT |-> fatPos, hdrType |-> 0,
         hdrVersion |-> version, version |-> version,
         fatStream |-> CASE fmt = "rff" -> recs
                         [] fmt = "gd" -> recs \o [i \in 1..(MaxGdSlots - N) |-> BlankRec]
                         [] OTHER -> <<>>,
         offFAT |-> IF fmt = "epf" THEN fatPos ELSE 0,
         numFiles |-> IF fmt = "gd" THEN N ELSE 0,
         maxFiles |-> IF fmt = "gd" THEN MaxGdSlots ELSE 0,
         modifiedFAT |-> FALSE, attrChanged |-> FALSE,
         attrValue |-> CASE fmt = "epf" -> descLen
                         [] version = RFF_VERSION_3_1 -> 1
                         [] OTHER -> 0,
         stray |-> FALSE, touched |-> FALSE, threw |-> FALSE, hooked |-> <<>>]

\* The bytes of the backing stream (and of G-D's FAT file).
Content(s) ==
    [len |-> s.len, dFAT |-> s.dFAT, dFatKey |-> s.dFatKey,
     fatPos |-> s.fatPos, descLen |-> s.descLen,
     hdrCount |-> s.hdrCount, hdrFAT |-> s.hdrFAT, hdrType |-> s.hdrType,
     hdrVersion |-> s.hdrVersion,
     fat |-> IF s.fmt = "gd" THEN s.fatStream ELSE <<>>, stray |-> s.stray]

\* The stored sizes of the loaded files, in file order: every choice in which
\* no file is smaller than the one before it (an empty file in front of a
\* file with data, files of equal size).
InitSizes(fmt) ==
    {sizes \in UNION {[1..n -> (IF fmt = "gd" THEN 1 ELSE 0)..MaxSize] :
                        n \in 0..MaxInitFiles} :
        \A i \in 1..(Len(sizes) - 1) : sizes[i] <= sizes[i + 1]}

\* Names that are not 8.3: an extension of four characters, which the
\* inserts try, and a base of nine, which the renames try.
RffLongExt == <<"n", ".", "a", "b", "c", "d">>

RffLongBase == <<"a", "b", "c", "d", "e", "f", "g", "h", "i", ".", "x">>

InsertNames(fmt) ==
    CASE fmt = "rff" -> {<<"n", ".", "x">>, <<"n">>, RffLongExt}
      [] fmt = "dat" -> {<<"n", ".", "m", "i", "f">>, <<"n">>}
      [] fmt = "gd" -> {<<>>}
      [] OTHER -> {<<"n">>}

RenameNames(fmt) ==
    CASE fmt = "rff" -> {<<"R", ".", "Y">>, <<"R">>, RffLongBase}
      [] fmt = "dat" -> {<<"R", ".", "m", "i", "f">>, <<"R">>}
      [] fmt = "gd" -> {<<>>}
      [] OTHER -> {<<"R">>}

AttrValues == {0, 2}

\* The enum values of RFF's Version attribute.
RFF_AttrValues == {0, 1}

\* The attribute flags a caller passes to insert().
InsertAttrs(fmt) ==
    CASE fmt = "rff" -> {{}, {"Encrypted"}}
      [] fmt = "res" -> {{}, {"Folder"}}
      [] OTHER -> {{}}

\* The sizes the callers ask for: small ones and, for the format with 16-bit
\* size fields, one that does not fit.
RequestedSizes(fmt) == (0..MaxSize) \cup (IF fmt = "dat" THEN {BigSize} ELSE {})

(***************************************************************************)
(* The state machine.  ar is the archive object.  The other variables are  *)
(* history: lastOp is the last call, its argument and the name passed to   *)
(* it; dirty tells whether a mutating call or an attribute change was made *)
(* since loading; loaded is the loaded bytes; nCalls counts the calls;     *)
(* hookFailed tells whether some call so far ended with an exception after *)
(* it had changed the archive.  scan holds the locals of a running         *)
(* cleanOpenSubstreams: its position, its iterator and its flag.           *)
(***************************************************************************)
VARIABLES ar, lastOp, dirty, loaded, nCalls, hookFailed, scan

vars == <<ar, lastOp, dirty, loaded, nCalls, hookFailed, scan>>

\* No cleanOpenSubstreams is being stepped through.  pc is the position in
\* the routine, i its iterator (the 1-based place in the list), clean its
\* flag; scans counts the passes of the do loop and entry is the list the
\* call found, both history.
NotScanning ==
    [pc |-> "idle", i |-> 0, clean |-> TRUE, scans |-> 0, entry |-> <<>>]

Init ==
    /\ \E fmt \in Formats, type \in DatInitTypes,
          version \in {0, RFF_VERSION_2_0, RFF_VERSION_3_1}, enc \in BOOLEAN,
          tail \in BOOLEAN, folder \in BOOLEAN :
         /\ fmt # "dat" => type = 0
         /\ version = 0 <=> fmt # "rff"
         /\ \E sizes \in InitSizes(fmt) :
               /\ type # 0 => Len(sizes) = 1
               /\ version = RFF_VERSION_3_1 => Len(sizes) <= 1
               /\ enc => (version = RFF_VERSION_3_1 /\ Len(sizes) = 1)
               /\ tail => (fmt = "wad" /\ Len(sizes) = 1)
               /\ folder => (fmt = "res" /\ Len(sizes) = 1)
               /\ ar = LoadedArchive(fmt, sizes, type, version, enc, tail, folder)
    /\ lastOp = [op |-> "load", h |-> 0, arg |-> 0, name |-> <<>>]
    /\ dirty = FALSE
    /\ loaded = Content(ar)
    /\ nCalls = 0
    /\ hookFailed = FALSE
    /\ scan = NotScanning

\* What a caller can observe of the archive object and its streams.
Observable(s) ==
    [content |-> [len |-> s.len, dFAT |-> s.dFAT, dFatKey |-> s.dFatKey,
                  fatPos |-> s.fatPos,
                  descLen |-> s.descLen, hdrCount |-> s.hdrCount,
                  hdrFAT |-> s.hdrFAT, hdrType |-> s.hdrType,
                  hdrVersion |-> s.hdrVersion, stray |-> s.stray],
     fatStream |-> s.fatStream, ent |-> s.ent, vcFAT |-> s.vcFAT]

\* The call that took the archive from s0 to s1 failed after changing it.
FailedAfterChange(s0, s1) == s1.threw /\ Observable(s1) # Observable(s0)

\* One more call is made, while the run may still make one.
Call == nCalls < MaxCalls /\ nCalls' = nCalls + 1

\* The history of failures, kept at the end of every call.
Track == hookFailed' = (hookFailed \/ FailedAfterChange(ar, ar'))

\* Every call starts with no exception pending; touched records the writes of
\* the call to the backing stream, hooked its calls of updateFileOffset.
Begin(s) == [s EXCEPT !.threw = FALSE, !.touched = FALSE, !.hooked = <<>>]

Open ==
    /\ Call
    /\ Len(ar.vcSubStream) < MaxSubs
    /\ \E h \in 1..Len(ar.ent) :
         /\ ar' = open(Begin(ar), h)
         /\ lastOp' = [op |-> "open", h |-> h, arg |-> 0, name |-> <<>>]
    /\ UNCHANGED <<dirty, loaded>>
    /\ Track
    /\ UNCHANGED scan

\* The caller drops its reference to a sub-stream: the weak reference the
\* archive holds expires.
Close ==
    /\ Call
    /\ \E i \in 1..Len(ar.vcSubStream) :
         /\ ar.vcSubStream[i].alive
         /\ ar' = [Begin(ar) EXCEPT !.vcSubStream[i].alive = FALSE]
         /\ lastOp' = [op |-> "close", h |-> ar.vcSubStream[i].h, arg |-> i,
                     name |-> <<>>]
    /\ UNCHANGED <<dirty, loaded>>
    /\ Track
    /\ UNCHANGED scan

\* The name, the size and the attributes the callers pass to insert.  A name
\* that RFF's splitFilename refuses is tried with one size and no attribute
\* (the insert fails before either is used), the size that does not fit a
\* 16-bit field with one name, and a folder is inserted empty.
InsertInputs(fmt) ==
    {in \in InsertNames(fmt) \X RequestedSizes(fmt) \X InsertAttrs(fmt) :
        /\ (fmt = "rff" /\ RFF_splitThrows(uppercase(in[1])))
              => (in[2] = 0 /\ in[3] = {})
        /\ in[2] = BigSize => Len(in[1]) > 1
        /\ "Folder" \in in[3] => in[2] = 0}

Insert ==
    /\ Call
    /\ Len(ar.ent) < MaxHandles
    /\ \E b \in 0..Len(ar.ent), in \in InsertInputs(ar.fmt) :
         LET name == in[1]
             sz == in[2]
             attr == in[3]
         IN
         /\ ar' = insert(Begin(ar), b, name, sz, attr)
         /\ lastOp' = [op |-> "insert", h |-> Len(ar.ent) + 1, arg |-> b,
                     name |-> name]
    /\ dirty' = TRUE
    /\ UNCHANGED loaded
    /\ Track
    /\ UNCHANGED scan

Remove ==
    /\ Call
    /\ \E h \in 1..Len(ar.ent) :
         /\ isValid(ar, h)
         /\ ar' = remove(Begin(ar), h)
         /\ lastOp' = [op |-> "remove", h |-> h, arg |-> 0, name |-> <<>>]
    /\ dirty' = TRUE
    /\ UNCHANGED loaded
    /\ Track
    /\ UNCHANGED scan

Resize ==
    /\ Call
    /\ \E h \in 1..Len(ar.ent), n \in RequestedSizes(ar.fmt) :
         /\ isValid(ar, h)
         /\ ar' = resize(Begin(ar), h, n)
         /\ lastOp' = [op |-> "resize", h |-> h, arg |-> n, name |-> <<>>]
    /\ dirty' = TRUE
    /\ UNCHANGED loaded
    /\ Track
    /\ UNCHANGED scan

\* remove() and resize() begin with assert(isValid(id)): with a tombstoned
\* handle the assertion stops the call before it changes anything.
Rejected ==
    /\ Call
    /\ \E h \in 1..Len(ar.ent), op \in {"remove", "resize"} :
         /\ ~isValid(ar, h)
         /\ ar' = Begin(ar)
         /\ lastOp' = [op |-> op, h |-> h, arg |-> -1, name |-> <<>>]
    /\ UNCHANGED <<dirty, loaded>>
    /\ Track
    /\ UNCHANGED scan

Rename ==
    /\ Call
    /\ \E h \in 1..Len(ar.ent), name \in RenameNames(ar.fmt) :
         /\ isValid(ar, h)
         /\ ar' = rename(Begin(ar), h, name)
         /\ lastOp' = [op |-> "rename", h |-> h, arg |-> 0, name |-> name]
    /\ dirty' = TRUE
    /\ UNCHANGED loaded
    /\ Track
    /\ UNCHANGED scan

SetAttribute ==
    /\ Call
    /\ ar.fmt \in {"wad", "epf", "rff"}
    /\ \E v \in (IF ar.fmt = "rff" THEN RFF_AttrValues ELSE AttrValues) :
         /\ ar' = IF ar.fmt = "rff" THEN RFF_attribute(Begin(ar), v)
                   ELSE attribute(Begin(ar), v)
         /\ lastOp' = [op |-> "attribute", h |-> 0, arg |-> v, name |-> <<>>]
    /\ dirty' = TRUE
    /\ UNCHANGED loaded
    /\ Track
    /\ UNCHANGED scan

Flush ==
    /\ Call
    /\ ar' = flush(Begin(ar))
    /\ lastOp' = [op |-> "flush", h |-> 0, arg |-> 0, name |-> <<>>]
    /\ UNCHANGED <<dirty, loaded>>
    /\ Track
    /\ UNCHANGED scan

Next ==
    \/ Open
    \/ Close
    \/ Insert
    \/ Remove
    \/ Resize
    \/ Rejected
    \/ Rename
    \/ SetAttribute
    \/ Flush

Spec == Init /\ [][Next]_vars

(***************************************************************************)
(* Type invariant.                                                         *)
(***************************************************************************)
TypeOK ==
    /\ ar.fmt \in Formats
    /\ Len(ar.ent) <= MaxHandles
    /\ \A i \in 1..Len(ar.vcFAT) : ar.vcFAT[i] \in 1..Len(ar.ent)
    /\ Len(ar.vcSubStream) <= MaxSubs
    /\ dirty \in BOOLEAN


\* The runs that only insert and remove (and open and close sub-streams).
NextInsertRemove ==
    \/ Open
    \/ Close
    \/ Insert
    \/ Remove
    \/ Rejected

SpecInsertRemove == Init /\ [][NextInsertRemove]_vars

(***************************************************************************)
(* Properties of the file vector.                                          *)
(***************************************************************************)
Live(s) == Range(s.vcFAT)

EndOf(e) == e.iOffset + e.lenHeader + e.storedSize

Orders(S) ==
    {f \in [1..Cardinality(S) -> S] :
        \A i, j \in 1..Cardinality(S) : i # j => f[i] # f[j]}

\* Some ordering of the live entries by offset in which every entry ends
\* exactly where the next begins.
Contiguous(s) ==
    \E f \in Orders(Live(s)) :
        \A i \in 1..(Cardinality(Live(s)) - 1) :
            /\ s.ent[f[i]].iOffset <= s.ent[f[i + 1]].iOffset
            /\ EndOf(s.ent[f[i]]) = s.ent[f[i + 1]].iOffset

\* The vector is in offset order, contiguous, and the i-th entry has index i-1.
WellFormed(s) ==
    /\ \A i \in 1..Len(s.vcFAT) : s.ent[s.vcFAT[i]].iIndex = i - 1
    /\ \A i \in 1..(Len(s.vcFAT) - 1) :
          EndOf(s.ent[s.vcFAT[i]]) = s.ent[s.vcFAT[i + 1]].iOffset

\* C1: in every state reached by inserts, removes and resizes from a
\* contiguous archive, the live entries sorted by offset are contiguous: each
\* ends exactly where the next begins.
C1_SortedEntriesContiguous == Contiguous(ar)

\* C2: after any inserts and removes, on entries of any stored size, the
\* indices of the live entries are a permutation of 0..N-1, and the order by
\* index is the order of the file vector and the order by offset.
C2_IndexPermutation ==
    /\ {ar.ent[h].iIndex : h \in Live(ar)} = 0..(Len(ar.vcFAT) - 1)
    /\ \A i \in 1..Len(ar.vcFAT) : ar.ent[ar.vcFAT[i]].iIndex = i - 1
    /\ \A i \in 1..(Len(ar.vcFAT) - 1) :
          ar.ent[ar.vcFAT[i]].iOffset <= ar.ent[ar.vcFAT[i + 1]].iOffset

\* The bytes an insert adds in front of the data region: the FAT record, in
\* the format whose FAT precedes the data.
FatGrowth(s) == IF s.fmt = "wad" THEN WAD_FAT_ENTRY_LEN ELSE 0

\* C3: after insert every handle that was valid is still valid and keeps its
\* name and stored size; the entries at or after the insertion point have
\* their offset increased by the new entry's header and stored size (plus the
\* FAT record where the FAT precedes the data) and their index by one; the
\* entries before it keep their index and their place in the data region.
C3_InsertKeepsHandles ==
    [][(/\ lastOp'.op = "insert"
        /\ ~ar'.threw
        /\ WellFormed(ar))
       => LET new == ar'.ent[lastOp'.h]
              b == lastOp'.arg
              p == IF isValid(ar, b) THEN PosInVector(ar, b)
                   ELSE Len(ar.vcFAT) + 1
          IN  \A i \in 1..Len(ar.vcFAT) :
                LET old == ar.ent[ar.vcFAT[i]]
                    now == ar'.ent[ar.vcFAT[i]]
                IN  /\ now.bValid
                    /\ now.strName = old.strName
                    /\ now.storedSize = old.storedSize
                    /\ i >= p =>
                         /\ now.iOffset = old.iOffset + new.lenHeader
                                            + new.storedSize + FatGrowth(ar)
                         /\ now.iIndex = old.iIndex + 1
                    /\ i < p =>
                         /\ now.iIndex = old.iIndex
                         /\ now.iOffset = old.iOffset + FatGrowth(ar)]_vars


IsAlive(sub) == sub.alive

AliveSubs(s) == SelectSeq(s.vcSubStream, IsAlive)

\* C4: remove(h) makes h invalid and takes it out of the file vector while
\* every other entry stays valid; a tombstoned entry never becomes valid again
\* and never returns to the vector, whatever is inserted, removed or resized;
\* an insert before a tombstoned handle appends the new file at the end.
C4_TombstoneIsFinal ==
    [][/\ (lastOp'.op = "remove" /\ lastOp'.arg = 0) =>
            /\ ~ar'.ent[lastOp'.h].bValid
            /\ lastOp'.h \notin Live(ar')
            /\ \A g \in 1..Len(ar.ent) :
                  (g # lastOp'.h /\ ar.ent[g].bValid) => ar'.ent[g].bValid
       /\ \A g \in 1..Len(ar.ent) :
            ~ar.ent[g].bValid =>
                /\ g <= Len(ar'.ent)
                /\ ~ar'.ent[g].bValid
                /\ g \notin Live(ar')
       /\ (/\ lastOp'.op = "insert"
           /\ ~ar'.threw
           /\ lastOp'.arg \in 1..Len(ar.ent)
           /\ ~ar.ent[lastOp'.arg].bValid) =>
            ar'.vcFAT = Append(ar.vcFAT, lastOp'.h)]_vars

\* A file was inserted before a tombstoned handle and is the last of the vector.
C4_Witness ==
    /\ lastOp.op = "insert"
    /\ ~ar.threw
    /\ lastOp.arg \in 1..Len(ar.ent)
    /\ ~ar.ent[lastOp.arg].bValid
    /\ Len(ar.vcFAT) >= 2
    /\ ar.vcFAT[Len(ar.vcFAT)] = lastOp.h

\* C5: a sub-stream opened on a live entry e keeps the window start
\* e.offset + e.headerLen and the length e.storedSize after any inserts and
\* removes of other entries.
C5_SubStreamFollowsEntry ==
    \A i \in 1..Len(ar.vcSubStream) :
        LET sub == ar.vcSubStream[i] IN
        (sub.alive /\ ar.ent[sub.h].bValid) =>
            /\ sub.off = ar.ent[sub.h].iOffset + ar.ent[sub.h].lenHeader
            /\ sub.len = ar.ent[sub.h].storedSize

\* C6: after resize(e, n) every live sub-stream opened on e has length n and
\* starts at e.offset + e.headerLen, with a zero header and with an embedded
\* header alike.
C6_ResizeUpdatesSubStreams ==
    [][(/\ lastOp'.op = "resize"
        /\ lastOp'.arg >= 0
        /\ ~ar'.threw
        /\ WellFormed(ar))
       => \A k \in 1..Len(AliveSubs(ar)) :
             LET before == AliveSubs(ar)[k]
                 e == ar.ent[lastOp'.h]
             IN  (/\ before.h = lastOp'.h
                  /\ before.off = e.iOffset + e.lenHeader
                  /\ before.len = e.storedSize)
                 => /\ k <= Len(AliveSubs(ar'))
                    /\ AliveSubs(ar')[k].len = lastOp'.arg
                    /\ AliveSubs(ar')[k].off = ar'.ent[lastOp'.h].iOffset
                                                + ar'.ent[lastOp'.h].lenHeader]_vars

\* C7: every engine operation called with a tombstoned handle is rejected:
\* open returns no sub-stream over the archive, remove and resize change
\* neither the file vector nor the backing stream.
C7_TombstoneRejected ==
    [][(/\ lastOp'.op \in {"open", "remove", "resize"}
        /\ lastOp'.h \in 1..Len(ar.ent)
        /\ ~ar.ent[lastOp'.h].bValid)
       => /\ ar'.vcSubStream = ar.vcSubStream
          /\ ar'.vcFAT = ar.vcFAT
          /\ Content(ar') = Content(ar)]_vars


\* The file vector as a caller sees it: offset, index and size of each entry.
VectorView(s) ==
    [i \in 1..Len(s.vcFAT) |->
        [h |-> s.vcFAT[i], iOffset |-> s.ent[s.vcFAT[i]].iOffset,
         iIndex |-> s.ent[s.vcFAT[i]].iIndex,
         storedSize |-> s.ent[s.vcFAT[i]].storedSize]]

\* The header fields and the length of the archive.
HeaderView(s) == [hdrCount |-> s.hdrCount, hdrFAT |-> s.hdrFAT, len |-> s.len]

\* C8: in WAD, RFF, EPF, DAT and G-D, inserting a new entry at any position
\* and then removing it restores the file vector (offset, index and size of
\* each entry), the header fields (file count, FAT offset) and the length of
\* the archive.
C8_InsertRemoveRoundTrip ==
    (ar.fmt \in {"wad", "rff", "epf", "dat", "gd"} /\ WellFormed(ar) /\ ~ar.stray)
    => \A b \in 0..Len(ar.ent), name \in InsertNames(ar.fmt), sz \in 0..MaxSize :
          LET s1 == insert(Begin(ar), b, name, sz, {})
              s2 == remove(s1, Len(ar.ent) + 1)
          IN  ~s1.threw =>
                 /\ VectorView(s2) = VectorView(ar)
                 /\ HeaderView(s2) = HeaderView(ar)

\* The FAT record the strategy keeps for entry h: its name field and its
\* numeric type field.
PersistedRecord(s, h) ==
    LET e == s.ent[h]
        rec == CASE s.fmt = "rff" -> s.fatStream[e.iIndex + 1]
                 [] s.fmt \in {"wad", "epf"} -> s.dFAT[e.iIndex + 1]
                 [] OTHER -> s.dFAT[CHOOSE k \in 1..Len(s.dFAT) :
                                        ChunkStart(s, k) = e.iOffset]
    IN  [name |-> rec.name, ext |-> rec.ext, type |-> rec.type]

\* C9: in WAD, RFF, EPF, DAT and RES, renaming an entry to another valid name
\* and then back to its original name leaves its persisted FAT record (name
\* field and numeric type field) as it was before the first rename.  It is
\* stated of the archive as loaded, whose records and entries agree.
C9_RenameRoundTrip ==
    (ar.fmt \in {"wad", "rff", "epf", "dat", "res"} /\ ~dirty)
    => \A h \in Live(ar), name \in RenameNames(ar.fmt) :
          LET s1 == rename(Begin(ar), h, name)
              s2 == rename(s1, h, ar.ent[h].strName)
          IN  (~s1.threw /\ ~s2.threw) =>
                 PersistedRecord(s2, h) = PersistedRecord(ar, h)

\* C10: flush on an archive on which no mutation and no attribute change was
\* made writes, inserts and removes nothing on the backing stream (RFF's
\* modifiedFAT is false, the attribute's changed flag of EPF and WAD is
\* false), so the flushed bytes are the loaded bytes.
C10_CleanFlushWritesNothing ==
    [][(lastOp'.op = "flush" /\ ~dirty)
       => /\ ~ar.modifiedFAT
          /\ ~ar.attrChanged
          /\ ~ar'.touched
          /\ Content(ar') = loaded]_vars

\* A loaded RFF archive with files was flushed with nothing changed.
C10_Witness ==
    /\ lastOp.op = "flush"
    /\ ~dirty
    /\ ar.fmt = "rff"
    /\ Len(ar.vcFAT) > 0
    /\ Content(ar) = loaded

(***************************************************************************)
(* The G-D constructor reading the FAT stream again.  Every pass of its    *)
(* loop reads four bytes (size, type); a size of zero makes it go on to    *)
(* the next pass without skipping the other four bytes of the record.  pos *)
(* counts the reads in units of four bytes; the last four bytes of a       *)
(* record are zero.                                                        *)
(***************************************************************************)
RECURSIVE GD_readFAT(_, _, _, _, _, _)
GD_readFAT(fat, maxFiles, i, pos, off, acc) ==
    IF i >= maxFiles \/ (pos \div 2) + 1 > Len(fat) THEN acc
    ELSE LET storedSize == IF pos % 2 = 0 THEN fat[(pos \div 2) + 1].size ELSE 0
         IN  IF storedSize = 0
             THEN GD_readFAT(fat, maxFiles, i + 1, pos + 1, off, acc)
             ELSE GD_readFAT(fat, maxFiles, i + 1, pos + 2, off + storedSize,
                             Append(acc, [iIndex |-> i, storedSize |-> storedSize,
                                          iOffset |-> off]))

\* The file vector a new Archive_GD_Doofus builds from the FAT of s.
GD_reloaded(s) ==
    GD_readFAT(s.fatStream, Len(s.fatStream), 0, 0, 0, <<>>)

\* Stored size and offset of each entry of a vector, in order.
SizesAndOffsets(v) ==
    [i \in 1..Len(v) |-> [storedSize |-> v[i].storedSize, iOffset |-> v[i].iOffset]]

\* C11: for a G-D archive, after inserts, removes and resizes followed by
\* flush, parsing the flushed FAT again yields as many entries as the file
\* vector held at flush time, with the same stored sizes and offsets in the
\* same order, zero-size entries included.
C11_GdFlushedFatReparses ==
    (ar.fmt = "gd" /\ lastOp.op = "flush")
    => SizesAndOffsets(GD_reloaded(ar)) = SizesAndOffsets(VectorView(ar))

\* The on-disk FAT of a WAD archive holds, in slot i, the offset and the
\* stored size of the entry of the vector whose index is i.
WAD_FatRefinesVector(s) ==
    /\ ~s.stray
    /\ Len(s.dFAT) = Len(s.vcFAT)
    /\ \A i \in 0..(Len(s.vcFAT) - 1) :
          \E h \in Live(s) :
              /\ s.ent[h].iIndex = i
              /\ s.dFAT[i + 1].off = s.ent[h].iOffset
              /\ s.dFAT[i + 1].size = s.ent[h].storedSize
    /\ \A h \in Live(s) :
          /\ s.ent[h].iIndex \in 0..(Len(s.dFAT) - 1)
          /\ s.dFAT[s.ent[h].iIndex + 1].off = s.ent[h].iOffset
          /\ s.dFAT[s.ent[h].iIndex + 1].size = s.ent[h].storedSize

\* C12: for a WAD archive, after every completed insert, remove or resize,
\* the on-disk FAT record in slot i holds the offset and stored size of the
\* in-memory entry whose index is i, for every i in 0..N-1.
C12_WadFatRefinesVector ==
    (/\ ar.fmt = "wad"
     /\ lastOp.op \in {"insert", "remove", "resize"}
     /\ ~ar.threw)
    => WAD_FatRefinesVector(ar)

\* The offsets of the entries of the file vector, in order.
OffsetsOf(s) == [i \in 1..Len(s.vcFAT) |-> s.ent[s.vcFAT[i]].iOffset]

\* C13: a resize of a Monster Bash DAT entry to a stored size above 65535
\* fails with an error and leaves the archive as it was before the call: the
\* entry's stored size, every entry's offset and the length of the backing
\* stream are unchanged.
C13_DatResizeOverLimitChangesNothing ==
    [][(/\ lastOp'.op = "resize"
        /\ ar.fmt = "dat"
        /\ lastOp'.arg > 65535)
       => /\ ar'.threw
          /\ ar'.ent[lastOp'.h].storedSize = ar.ent[lastOp'.h].storedSize
          /\ OffsetsOf(ar') = OffsetsOf(ar)
          /\ ar'.len = ar.len]_vars

\* The size field of the embedded record of entry h holds its stored size.
DAT_SizeFieldAgrees(s, h) ==
    \E k \in 1..Len(s.dFAT) :
        /\ ChunkStart(s, k) = s.ent[h].iOffset
        /\ s.dFAT[k].size = s.ent[h].storedSize

\* C14: no Monster Bash DAT entry ever has a stored size above 65535 (an
\* insert of a larger file is refused), so that the 16-bit size field written
\* on disk always equals the entry's in-memory stored size.  It is stated of
\* the runs that insert and remove, where no resize is involved.
C14_DatSizeFitsField ==
    ar.fmt = "dat"
    => \A h \in Live(ar) :
          /\ ar.ent[h].storedSize <= 65535
          /\ DAT_SizeFieldAgrees(ar, h)

\* C15: once a strategy hook has failed after the engine had changed the
\* backing stream or an entry, every later insert, remove, resize or rename
\* is rejected: it changes neither the streams nor the entries nor the vector.
C15_PoisonedAfterHookFailure ==
    [][(hookFailed /\ lastOp'.op \in {"insert", "remove", "resize", "rename"})
       => Observable(ar') = Observable(ar)]_vars

\* Whether the base of the name is longer than 8 characters or its extension
\* longer than 3.
NotEightDotThree(name) ==
    LET posDot == posDotOf(name) IN
    IF posDot = -1 THEN Len(name) > 8
    ELSE posDot > 8 \/ Len(name) - posDot - 1 > 3

\* C16: an RFF insert or rename with a name whose base exceeds 8 characters
\* or whose extension exceeds 3 fails before any change is made: the buffered
\* FAT stream, the modifiedFAT flag, the entries, the file vector and the
\* backing stream are unchanged.
C16_RffBadNameChangesNothing ==
    [][(/\ ar.fmt = "rff"
        /\ lastOp'.op \in {"insert", "rename"}
        /\ NotEightDotThree(lastOp'.name))
       => /\ ar'.threw
          /\ ar'.fatStream = ar.fatStream
          /\ ar'.modifiedFAT = ar.modifiedFAT
          /\ ar'.ent = ar.ent
          /\ ar'.vcFAT = ar.vcFAT
          /\ ~ar'.touched
          /\ Content(ar') = Content(ar)]_vars

\* An insert with a name of a four-character extension was refused on an RFF
\* archive that holds files.
C16_WitnessInsert ==
    /\ ar.fmt = "rff"
    /\ lastOp.op = "insert"
    /\ lastOp.name = <<"n", ".", "a", "b", "c", "d">>
    /\ ar.threw
    /\ Len(ar.vcFAT) > 0

\* C17: setting the RFF version attribute to v2.0 while an entry carries the
\* Encrypted attribute is refused with an error and leaves the version, the
\* attribute value and the header unchanged; with no encrypted entry the
\* change is accepted and the new version is written to the header.
C17_RffVersionDowngrade ==
    [][(ar.fmt = "rff" /\ lastOp'.op = "attribute" /\ lastOp'.arg = 0)
       => IF \E h \in Live(ar) : "Encrypted" \in ar.ent[h].fAttr
          THEN /\ ar'.threw
               /\ ar'.version = ar.version
               /\ ar'.attrValue = ar.attrValue
               /\ ar'.hdrVersion = ar.hdrVersion
               /\ Content(ar') = Content(ar)
          ELSE /\ ~ar'.threw
               /\ ar'.attrValue = 0
               /\ ar'.version = RFF_VERSION_2_0
               /\ ar'.hdrVersion = RFF_VERSION_2_0]_vars

\* The change to v2.0 was refused on an archive that holds an encrypted file
\* inserted by the caller.
C17_WitnessRefused ==
    /\ ar.fmt = "rff"
    /\ lastOp.op = "attribute"
    /\ lastOp.arg = 0
    /\ ar.threw
    /\ ar.version = RFF_VERSION_3_1
    /\ \E h \in Live(ar) : "Encrypted" \in ar.ent[h].fAttr /\ h > 1

\* C18: the G-D FAT stream keeps the length maxFiles * 8 bytes (maxFiles
\* records) over inserts and removes: an insert drops the last slot and
\* splices a record at the new entry's index, a remove deletes the entry's
\* record and appends an empty slot at the end.
C18_GdFatLengthConstant ==
    [][(ar.fmt = "gd" /\ ~ar'.threw)
       => /\ Len(ar'.fatStream) = ar'.maxFiles
          /\ ar'.maxFiles = ar.maxFiles
          /\ lastOp'.op = "insert" =>
                ar'.fatStream =
                    InsertAt(SubSeq(ar.fatStream, 1, Len(ar.fatStream) - 1),
                             ar'.ent[lastOp'.h].iIndex + 1,
                             FatRec(0, ar'.ent[lastOp'.h].storedSize,
                                    <<>>, <<>>, 0))
          /\ (lastOp'.op = "remove" /\ lastOp'.arg = 0) =>
                ar'.fatStream =
                    Append(RemoveAt(ar.fatStream, ar.ent[lastOp'.h].iIndex + 1),
                           BlankRec)]_vars

\* C19: an insert into a G-D archive succeeds whenever the FAT still has an
\* empty slot (numFiles < maxFiles) and is refused only when every slot is in
\* use; a refused insert changes neither the FAT stream nor numFiles nor the
\* file vector.
C19_GdInsertWhileSlotFree ==
    [][(ar.fmt = "gd" /\ lastOp'.op = "insert")
       => /\ ar.numFiles < ar.maxFiles => ~ar'.threw
          /\ ar'.threw =>
                /\ ar.numFiles = ar.maxFiles
                /\ ar'.fatStream = ar.fatStream
                /\ ar'.numFiles = ar.numFiles
                /\ ar'.vcFAT = ar.vcFAT]_vars


(***************************************************************************)
(* RFF: the archive that flush() leaves when the FAT was modified.         *)
(***************************************************************************)
\* The end of the data of the last file of the vector, 32 without files.
RFF_endOfData(s) ==
    IF Len(s.vcFAT) = 0 THEN RFF_HEADER_LEN
    ELSE LET pLast == s.ent[s.vcFAT[Len(s.vcFAT)]]
         IN  pLast.iOffset + pLast.lenHeader + pLast.storedSize

\* The bytes of file data that the entries of the vector hold, from the i-th.
RECURSIVE RFF_dataBytes(_, _)
RFF_dataBytes(s, i) ==
    IF i > Len(s.vcFAT) THEN 0
    ELSE s.ent[s.vcFAT[i]].storedSize + RFF_dataBytes(s, i + 1)

\* C20: after the flush of an RFF archive whose FAT was modified, the
\* header's FAT offset is the end of the last file's data (32 without
\* files), the FAT on disk is N records of 48 bytes placed at that offset,
\* and the archive is FAT offset + 48 * N bytes long; with every file
\* removed the archive is 32 bytes long, its file count 0 and its FAT
\* offset 32.
C20_RffFlushedLayout ==
    [][(ar.fmt = "rff" /\ lastOp'.op = "flush" /\ ar.modifiedFAT)
       => LET N == Len(ar'.vcFAT)
          IN  /\ ar'.hdrFAT = RFF_endOfData(ar')
              /\ ar'.hdrFAT = RFF_HEADER_LEN + RFF_dataBytes(ar', 1)
              /\ ar'.fatPos = ar'.hdrFAT
              /\ Len(ar'.dFAT) = N
              /\ ar'.len = ar'.hdrFAT + RFF_FAT_ENTRY_LEN * N
              /\ N = 0 => /\ ar'.len = RFF_HEADER_LEN
                          /\ ar'.hdrCount = 0
                          /\ ar'.hdrFAT = RFF_HEADER_LEN]_vars


EPF_FatInIndexOrder(s) ==
    /\ Len(s.dFAT) = Len(s.vcFAT)
    /\ \A i \in 1..Len(s.vcFAT) :
          LET e == s.ent[s.vcFAT[i]]
          IN  /\ e.iIndex = i - 1
              /\ s.dFAT[i].name = nullPadded(e.strName, EPF_FILENAME_FIELD_LEN)

\* C22: in an EPF archive, after any inserts, removes and resizes, the
\* in-memory FAT offset is the header's FAT offset and is the end of the last
\* file's data plus the length of the description; the description lies
\* between the file data and the FAT, and the FAT records are in index order.
C22_EpfFatOffset ==
    ar.fmt = "epf"
    => /\ ar.offFAT = ar.hdrFAT
       /\ ar.offFAT = getDescOffset(ar) + ar.descLen
       /\ ar.fatPos = ar.offFAT
       /\ EPF_FatInIndexOrder(ar)


\* The entries as the strategy's flush must leave them.
EntriesOf(s) == [i \in 1..Len(s.vcFAT) |-> s.ent[s.vcFAT[i]]]

\* C23: flushing an EPF archive whose description was changed to a text of
\* length n makes the description region that text, moves the FAT offset, in
\* memory and in the header, by n minus the old description length, leaves
\* every FAT record and every file's offset and size as they were, and clears
\* the changed flag: a flush that follows at once edits nothing.
C23_EpfFlushDescription ==
    [][(ar.fmt = "epf" /\ lastOp'.op = "flush" /\ ar.attrChanged)
       => /\ ar'.descLen = ar.attrValue
          /\ ar'.fatPos - ar'.descLen = ar.fatPos - ar.descLen
          /\ ar'.offFAT = ar.offFAT + (ar.attrValue - ar.descLen)
          /\ ar'.hdrFAT = ar'.offFAT
          /\ ar'.fatPos = ar'.offFAT
          /\ ar'.dFAT = ar.dFAT
          /\ EntriesOf(ar') = EntriesOf(ar)
          /\ ar'.len = ar.len + (ar.attrValue - ar.descLen)
          /\ ~ar'.attrChanged
          /\ flush(Begin(ar')) = Begin(ar')]_vars


\* C24: resizing an EPF entry writes the new size into the entry's own FAT
\* record, the record at FAT offset + index * 22 of the archive as it is after
\* the data was spliced, changes no other FAT record and no description byte,
\* and moves the FAT offset by the change of size.
C24_EpfResizeWritesOwnRecord ==
    [][(/\ ar.fmt = "epf"
        /\ lastOp'.op = "resize"
        /\ lastOp'.arg >= 0
        /\ ~ar'.threw
        /\ WellFormed(ar)
        /\ ~ar.stray
        /\ lastOp'.arg # ar.ent[lastOp'.h].storedSize)
       => LET slot == ar.ent[lastOp'.h].iIndex + 1
              delta == lastOp'.arg - ar.ent[lastOp'.h].storedSize
          IN  /\ ~ar'.stray
              /\ Len(ar'.dFAT) = Len(ar.dFAT)
              /\ ar'.dFAT[slot].size = lastOp'.arg
              /\ \A k \in 1..Len(ar.dFAT) : k # slot => ar'.dFAT[k] = ar.dFAT[k]
              /\ ar'.descLen = ar.descLen
              /\ ar'.offFAT = ar.offFAT + delta
              /\ ar'.hdrFAT = ar'.offFAT
              /\ ar'.fatPos = ar'.offFAT]_vars


(***************************************************************************)
(* Rename.                                                                 *)
(***************************************************************************)
\* The FAT records the strategy edits: RFF's buffered FAT, the stream's FAT
\* in the other formats.
RecordsOf(s) == IF s.fmt \in {"rff", "gd"} THEN s.fatStream ELSE s.dFAT

\* A record without the fields that hold the name (in DAT the type number
\* stands for the extension).
WithoutName(rec) == [rec EXCEPT !.name = <<>>, !.ext = <<>>, !.type = 0]

\* C25: rename changes only the target entry's name, in the name field of its
\* own FAT record: every entry's offset, index and size, the file count, the
\* FAT offset and the archive length are as before, and the record of no
\* other entry is written.
C25_RenameFrame ==
    [][(lastOp'.op = "rename" /\ ~ar'.threw /\ ~ar.stray)
       => LET h == lastOp'.h
              slot == PosInVector(ar, h)
          IN  /\ ar'.vcFAT = ar.vcFAT
              /\ Len(ar'.ent) = Len(ar.ent)
              /\ \A g \in 1..Len(ar.ent) :
                    ar'.ent[g] = IF g = h
                                 THEN [ar.ent[g] EXCEPT !.strName = lastOp'.name]
                                 ELSE ar.ent[g]
              /\ ar'.hdrCount = ar.hdrCount
              /\ ar'.hdrFAT = ar.hdrFAT
              /\ ar'.offFAT = ar.offFAT
              /\ ar'.fatPos = ar.fatPos
              /\ ar'.len = ar.len
              /\ ~ar'.stray
              /\ Len(RecordsOf(ar')) = Len(RecordsOf(ar))
              /\ \A k \in 1..Len(RecordsOf(ar)) :
                    IF k = slot
                    THEN WithoutName(RecordsOf(ar')[k]) = WithoutName(RecordsOf(ar)[k])
                    ELSE RecordsOf(ar')[k] = RecordsOf(ar)[k]]_vars


(***************************************************************************)
(* WAD: the FAT that is edited is the FAT that was loaded.                 *)
(***************************************************************************)
\* C26: the WAD strategy edits the FAT it loaded: the record a rename, a
\* resize, an insert or a remove rewrites is the one in slot index of the
\* FAT at the offset of the header, where the constructor read the entries,
\* wherever in the archive the header places the FAT.
C26_WadEditsLoadedFat ==
    [][(/\ ar.fmt = "wad"
        /\ lastOp'.op \in {"rename", "resize", "insert", "remove"}
        /\ lastOp'.arg >= 0
        /\ ~ar'.threw
        /\ WellFormed(ar)
        /\ ~ar.stray)
       => LET h == lastOp'.h
              slot == ar'.ent[h].iIndex + 1
          IN  /\ ~ar'.stray
              /\ Len(ar'.dFAT) = Len(ar'.vcFAT)
              /\ lastOp'.op = "rename" =>
                    ar'.dFAT[slot].name
                       = nullPadded(lastOp'.name, WAD_FILENAME_FIELD_LEN)
              /\ lastOp'.op = "resize" => ar'.dFAT[slot].size = lastOp'.arg
              /\ lastOp'.op = "insert" =>
                    /\ ar'.dFAT[slot].name = ar'.ent[h].strName
                    /\ ar'.dFAT[slot].size = ar'.ent[h].storedSize]_vars


(***************************************************************************)
(* DAT: the type number and the extension.                                 *)
(***************************************************************************)
\* C27: in Monster Bash DAT the mapping from extension to type number used
\* on save is the reverse of the mapping from type number to extension used
\* on load: an entry loaded with type t and renamed to its own loaded name,
\* or inserted again under its loaded name, is persisted with type t and
\* with the same native name, the one without the extension.  It is stated
\* of the archive as loaded.
C27_DatTypeMappingReverses ==
    (ar.fmt = "dat" /\ ~dirty)
    => \A h \in Live(ar) :
          LET s1 == rename(Begin(ar), h, ar.ent[h].strName)
              s2 == insert(Begin(ar), 0, ar.ent[h].strName, 0, {})
          IN  /\ PersistedRecord(s1, h) = PersistedRecord(ar, h)
              /\ ~s2.threw =>
                    PersistedRecord(s2, Len(ar.ent) + 1) = PersistedRecord(ar, h)


(***************************************************************************)
(* shiftFiles and its hook.                                                *)
(***************************************************************************)
\* The k-th call of updateFileOffset of the engine call is the last one made
\* for its entry.
LastHookOfEntry(s, k) ==
    \A j \in (k + 1)..Len(s.hooked) : s.hooked[j].h # s.hooked[k].h

\* C28: within shiftFiles the in-memory offset and index of a shifted entry
\* are both updated before updateFileOffset is called for it: the hook finds
\* the entry with its new offset and its new index.
C28_HookSeesNewOffsetAndIndex ==
    [][lastOp'.op \in {"insert", "remove", "resize"}
       => \A k \in 1..Len(ar'.hooked) :
             LET r == ar'.hooked[k]
             IN  LastHookOfEntry(ar', k)
                 => /\ r.iOffset = ar'.ent[r.h].iOffset
                    /\ r.iIndex = ar'.ent[r.h].iIndex]_vars

\* An insert has shifted an entry: its offset or its index is not the one it
\* had before the call, and the hook was called for it.
C28_Witness ==
    /\ lastOp.op = "insert"
    /\ ~ar.threw
    /\ ar.hooked # <<>>
    /\ isValid(ar, lastOp.arg)
    /\ ar.ent[lastOp.arg].iIndex >= 1
    /\ \E k \in 1..Len(ar.hooked) : ar.hooked[k].h = lastOp.arg


\* How often updateFileOffset was called for entry g in the engine call.
HookCalls(s, g) == Cardinality({k \in 1..Len(s.hooked) : s.hooked[k].h = g})

\* The engine calls that run shiftFiles once, and what they pass to it: the
\* entry to skip, the start offset and the two deltas.  Resize passes the end
\* of the resized entry, remove the offset of the removed entry, insert the
\* offset of the new entry, which is that of the entry it is put before.
ShiftsOnce(s, op) ==
    \/ /\ op.op = "resize"
       /\ op.arg >= 0
       /\ op.arg # s.ent[op.h].storedSize
    \/ /\ op.op = "remove"
       /\ op.arg >= 0
       /\ s.fmt # "wad"
    \/ /\ op.op = "insert"
       /\ s.fmt \in {"rff", "epf", "gd"}
       /\ isValid(s, op.arg)

ShiftStart(s, op, s1) ==
    CASE op.op = "resize" ->
            LET e == s.ent[op.h]
            IN  e.iOffset + e.lenHeader
                  + (IF op.arg > e.storedSize THEN e.storedSize ELSE op.arg)
      [] op.op = "remove" -> s.ent[op.h].iOffset
      [] OTHER -> s.ent[op.arg].iOffset + s1.ent[op.h].lenHeader

ShiftDeltaOffset(s, op, s1) ==
    CASE op.op = "resize" -> op.arg - s.ent[op.h].storedSize
      [] op.op = "remove" -> -(s.ent[op.h].storedSize + s.ent[op.h].lenHeader)
      [] OTHER -> s1.ent[op.h].storedSize

ShiftDeltaIndex(op) ==
    CASE op.op = "resize" -> 0
      [] op.op = "remove" -> -1
      [] OTHER -> 1

\* C29: shiftFiles changes the offset and the index of exactly the entries of
\* the file vector that start at or after the start offset and are not the
\* skipped entry, adds the same two deltas to each of them, calls
\* updateFileOffset for them and for no other entry, and leaves every other
\* entry where it was.
C29_ShiftFilesFrame ==
    [][(ShiftsOnce(ar, lastOp') /\ ~ar'.threw)
       => \A g \in 1..Len(ar.ent) :
             IF /\ g \in Live(ar)
                /\ g # lastOp'.h
                /\ ar.ent[g].iOffset >= ShiftStart(ar, lastOp', ar')
             THEN /\ ar'.ent[g].iOffset
                        = ar.ent[g].iOffset + ShiftDeltaOffset(ar, lastOp', ar')
                  /\ ar'.ent[g].iIndex = ar.ent[g].iIndex + ShiftDeltaIndex(lastOp')
                  /\ HookCalls(ar', g) = 1
             ELSE /\ ar'.ent[g].iOffset = ar.ent[g].iOffset
                  /\ ar'.ent[g].iIndex = ar.ent[g].iIndex
                  /\ HookCalls(ar', g) = 0]_vars

\* A remove has shifted the last entry of the vector and left the first.
C29_Witness ==
    /\ lastOp.op = "remove"
    /\ lastOp.arg >= 0
    /\ ar.fmt # "wad"
    /\ Len(ar.vcFAT) = 2
    /\ Len(ar.hooked) = 1
    /\ ar.hooked[1].h = ar.vcFAT[2]
    /\ ar.ent[ar.vcFAT[1]].iOffset < ar.ent[lastOp.h].iOffset


C31_ResizeFrame ==
    [][(lastOp'.op = "resize" /\ lastOp'.arg >= 0 /\ ~ar'.threw)
       => LET h == lastOp'.h
              n == lastOp'.arg
              old == ar.ent[h].storedSize
              p == PosInVector(ar, h)
          IN  IF n = old
              THEN /\ ar' = Begin(ar)
                   /\ ar'.hooked = <<>>
              ELSE /\ ar'.ent[h].iOffset = ar.ent[h].iOffset
                   /\ ar'.ent[h].iIndex = ar.ent[h].iIndex
                   /\ ar'.ent[h].storedSize = n
                   /\ ar'.len = ar.len + (n - old)
                   /\ ar'.vcFAT = ar.vcFAT
                   /\ \A q \in 1..Len(ar.vcFAT) :
                        LET g == ar.vcFAT[q]
                        IN  /\ q > p => ar'.ent[g].iOffset
                                           = ar.ent[g].iOffset + (n - old)
                            /\ q < p => ar'.ent[g].iOffset = ar.ent[g].iOffset]_vars



(***************************************************************************)
(* Runs that start with sub-streams open.  The archive was loaded and      *)
(* files were opened and some of them closed: the list of tracked          *)
(* references holds up to MaxTracked references, live or expired, in any   *)
(* order, and one more mutating call is made.                              *)
(***************************************************************************)
\* The reference the id-th open() tracks, for entry h; expired when the
\* caller has dropped the sub-stream.
Tracked(s, h, alive, id) ==
    [h |-> h, off |-> s.ent[h].iOffset + s.ent[h].lenHeader,
     len |-> s.ent[h].storedSize, alive |-> alive, id |-> id]

TrackedLists(s) ==
    UNION {{[i \in 1..n |-> Tracked(s, f[i][1], f[i][2], i)] :
              f \in [1..n -> (1..Len(s.ent)) \X BOOLEAN]} : n \in 0..MaxTracked}

TrackedStart ==
    /\ \E fmt \in Formats, type \in DatInitTypes,
          version \in {0, RFF_VERSION_2_0, RFF_VERSION_3_1}, enc \in BOOLEAN,
          tail \in BOOLEAN, folder \in BOOLEAN :
         /\ fmt # "dat" => type = 0
         /\ version = 0 <=> fmt # "rff"
         /\ \E sizes \in InitSizes(fmt) :
               /\ type # 0 => Len(sizes) = 1
               /\ version = RFF_VERSION_3_1 => Len(sizes) <= 1
               /\ enc => (version = RFF_VERSION_3_1 /\ Len(sizes) = 1)
               /\ tail => (fmt = "wad" /\ Len(sizes) = 1)
               /\ folder => (fmt = "res" /\ Len(sizes) = 1)
               /\ LET s == LoadedArchive(fmt, sizes, type, version, enc, tail, folder)
                  IN  \E subs \in TrackedLists(s) :
                         ar = [s EXCEPT !.vcSubStream = subs,
                                        !.nOpened = Len(subs)]
    /\ lastOp = [op |-> "load", h |-> 0, arg |-> 0, name |-> <<>>]
    /\ dirty = FALSE
    /\ loaded = Content(ar)
    /\ nCalls = MaxCalls - 1
    /\ hookFailed = FALSE

InitTracked == TrackedStart /\ scan = NotScanning

NextTracked ==
    \/ Insert
    \/ Remove
    \/ Resize

SpecTracked == InitTracked /\ [][NextTracked]_vars

\* The calls that run shiftFiles at least once: every remove, every resize
\* to another size, and the inserts that either go before a valid entry or
\* make room for an embedded header or a FAT record.
ShiftsSome(s, op) ==
    \/ /\ op.op = "resize"
       /\ op.arg >= 0
       /\ op.arg # s.ent[op.h].storedSize
    \/ /\ op.op = "remove"
       /\ op.arg >= 0
    \/ /\ op.op = "insert"
       /\ isValid(s, op.arg) \/ s.fmt \in {"wad", "dat", "res"}

\* The sub-streams the references of the list point to, in list order.
RefsOf(subs) == [i \in 1..Len(subs) |-> subs[i].id]

\* C32: after a shiftFiles pass that found at least one tracked reference
\* expired, the list of open sub-streams holds no expired reference and still
\* holds every live reference, in the original order.
C32_ShiftFilesCleansList ==
    [][(/\ ShiftsSome(ar, lastOp')
        /\ ~ar'.threw
        /\ \E i \in 1..Len(ar.vcSubStream) : ~ar.vcSubStream[i].alive)
       => /\ \A i \in 1..Len(ar'.vcSubStream) : ar'.vcSubStream[i].alive
          /\ RefsOf(ar'.vcSubStream) = RefsOf(AliveSubs(ar))]_vars

\* A remove found the second of three references expired and kept the first
\* and the third, opened on different entries, in their order.
C32_Witness ==
    /\ lastOp.op = "remove"
    /\ lastOp.arg >= 0
    /\ ar.nOpened = 3
    /\ RefsOf(ar.vcSubStream) = <<1, 3>>
    /\ ar.vcSubStream[1].alive /\ ar.vcSubStream[2].alive
    /\ ar.vcSubStream[1].h # ar.vcSubStream[2].h



(***************************************************************************)
(* RFF names without a dot.                                                *)
(***************************************************************************)
\* C33: insert and rename in an RFF archive accept a name that has no dot
\* and at most eight characters, and store it with an empty extension: the
\* arithmetic of splitFilename on the position of the missing dot does not
\* reject such a name.
C33_RffDotlessNameAccepted ==
    [][(/\ ar.fmt = "rff"
        /\ lastOp'.op \in {"insert", "rename"}
        /\ posDotOf(lastOp'.name) = -1
        /\ Len(lastOp'.name) <= 8)
       => /\ ~ar'.threw
          /\ \E k \in 1..Len(ar'.fatStream) :
                /\ ar'.fatStream[k].ext = nullPadded(<<>>, 3)
                /\ ar'.fatStream[k].name
                      \in {nullPadded(lastOp'.name, 8),
                           nullPadded(uppercase(lastOp'.name), 8)}]_vars



(***************************************************************************)
(* RFF: encryption and the version.                                        *)
(***************************************************************************)
\* C34: in an RFF archive no reachable state has an entry of the file vector
\* that carries the Encrypted attribute (and with it the xor-blood filter)
\* while the version is 0x200: insert drops the attribute under version 2.0
\* and the version cannot be lowered to 0x200 while an encrypted entry exists.
C34_NoEncryptedEntryInVersion2 ==
    (ar.fmt = "rff" /\ ar.version = RFF_VERSION_2_0) => ~RFF_hasEncrypted(ar)

\* A file was inserted after the version of an archive loaded as 3.1 had
\* been lowered to 2.0.
C34_Witness ==
    /\ ar.fmt = "rff"
    /\ ar.version = RFF_VERSION_2_0
    /\ loaded.hdrVersion = RFF_VERSION_3_1
    /\ lastOp.op = "insert"
    /\ ~ar.threw
    /\ lastOp.h \in Live(ar)



(***************************************************************************)
(* RFF: the encoding of the FAT on disk and the version in the header.     *)
(***************************************************************************)
\* What the constructor decodes from the stream: the FAT records as they
\* are when the key it derives from the header is the key they were written
\* with.  An empty FAT has no bytes to decode.
RFF_reloadDecodes(s) ==
    \/ Len(s.dFAT) = 0
    \/ s.dFatKey = RFF_fatKey(s.hdrVersion, s.hdrFAT)

\* C35: after the version attribute of an RFF archive was changed and the
\* archive flushed, with or without other calls in between, the FAT bytes on
\* disk are XOR-encoded exactly when the version written in the header is
\* 0x301 or more, so that loading the file again decodes the same entries.
C35_RffFatEncodingFollowsVersion ==
    [][(ar.fmt = "rff" /\ lastOp'.op = "flush")
       => /\ Len(ar'.dFAT) > 0
               => ((ar'.dFatKey # -1) <=> (ar'.hdrVersion >= RFF_VERSION_3_1))
          /\ RFF_reloadDecodes(ar')]_vars



(***************************************************************************)
(* RFF: the modifiedFAT flag.  fatWritten is the FAT as the constructor    *)
(* read it or as flush last wrote it.                                      *)
(***************************************************************************)
\* C36: in an RFF archive modifiedFAT is true whenever the buffered FAT
\* stream differs from the FAT last written to the backing stream; every
\* call that edits the buffered FAT (rename, insert, remove, resize and the
\* offset updates they make) leaves the flag set, and only flush clears it,
\* after it has written the whole buffer and the FAT offset it wrote it at.
C36_ModifiedFatTracksBuffer ==
    /\ [](ar.fmt = "rff" => (ar.fatStream # ar.fatWritten => ar.modifiedFAT))
    /\ [][ar.fmt = "rff"
          => /\ ar'.fatStream # ar.fatStream => ar'.modifiedFAT
             /\ (ar.modifiedFAT /\ ~ar'.modifiedFAT)
                   => /\ lastOp'.op = "flush"
                      /\ ar'.fatWritten = ar.fatStream
                      /\ ar'.fatStream = ar.fatStream
                      /\ Len(ar.vcFAT) > 0
                           => ar'.hdrFAT = EndOf(ar.ent[ar.vcFAT[Len(ar.vcFAT)]])]_vars

\* A flush has written a buffer that a remove had edited, and cleared the flag.
C36_Witness ==
    /\ ar.fmt = "rff"
    /\ lastOp.op = "flush"
    /\ ~ar.modifiedFAT
    /\ dirty
    /\ ar.fatWritten = ar.fatStream
    /\ Len(ar.fatWritten) < Len(loaded.dFAT)



(***************************************************************************)
(* Sub-streams of a removed entry.                                         *)
(***************************************************************************)
\* The bytes [a, a + n) and [b, b + k) have a byte in common.
Overlaps(a, n, b, k) == n > 0 /\ k > 0 /\ a < b + k /\ b < a + n

\* C37: after remove(e) no live sub-stream that had been opened on e has a
\* window that overlaps the data of an entry that remains in the archive,
\* and the offset of its window is not negative.
C37_RemovedEntrysSubStreams ==
    [][(lastOp'.op = "remove" /\ lastOp'.arg >= 0)
       => \A i \in 1..Len(ar'.vcSubStream) :
             LET sub == ar'.vcSubStream[i]
             IN  (sub.alive /\ sub.h = lastOp'.h)
                 => /\ sub.off >= 0
                    /\ \A g \in Live(ar') :
                          ~Overlaps(sub.off, sub.len,
                                    ar'.ent[g].iOffset + ar'.ent[g].lenHeader,
                                    ar'.ent[g].storedSize)]_vars



(***************************************************************************)
(* FATArchive::entryPtrFromStream                                          *)
(***************************************************************************)
\* The first entry of the file vector whose data starts at or after the
\* offset of the sub-stream; 0 stands for the empty EntryPtr.
entryPtrFromStream(s, openFile) ==
    LET offStart == openFile.off
        found == {i \in 1..Len(s.vcFAT) :
                    s.ent[s.vcFAT[i]].iOffset + s.ent[s.vcFAT[i]].lenHeader
                       >= offStart}
    IN  IF found = {} THEN 0
        ELSE s.vcFAT[CHOOSE i \in found : \A j \in found : i <= j]

\* C38: for every live entry e, entryPtrFromStream applied to a sub-stream
\* that was opened on e returns e, after any sequence of inserts, removes
\* and resizes and for entries of any stored size.
C38_EntryPtrFromStreamFindsEntry ==
    \A i \in 1..Len(ar.vcSubStream) :
        LET sub == ar.vcSubStream[i]
        IN  (sub.alive /\ isValid(ar, sub.h))
            => entryPtrFromStream(ar, sub) = sub.h



(***************************************************************************)
(* Stellar 7 RES: the folder bit.                                          *)
(***************************************************************************)
\* Bit 31 of the size field of the embedded record of entry h.
RES_persistedFolderBit(s, h) ==
    s.dFAT[CHOOSE k \in 1..Len(s.dFAT) : ChunkStart(s, k) = s.ent[h].iOffset].type

\* C39: in a Stellar 7 RES archive the folder bit (bit 31 of the size field)
\* persisted for each entry equals the folder attribute the entry has in
\* memory, after any insert or resize.
C39_ResFolderBitPersisted ==
    [][(/\ ar.fmt = "res"
        /\ lastOp'.op \in {"insert", "resize"}
        /\ lastOp'.arg >= 0
        /\ ~ar'.threw
        /\ ~ar'.stray)
       => \A h \in Live(ar') :
             /\ \E k \in 1..Len(ar'.dFAT) : ChunkStart(ar', k) = ar'.ent[h].iOffset
             /\ (RES_persistedFolderBit(ar', h) = 1)
                   <=> ("Folder" \in ar'.ent[h].fAttr)]_vars



(***************************************************************************)
(* FATArchive::cleanOpenSubstreams, statement by statement.  The call      *)
(* starts on an archive with tracked references, live or expired.          *)
(***************************************************************************)
InitClean ==
    /\ TrackedStart
    /\ scan = [pc |-> "do", i |-> 0, clean |-> FALSE, scans |-> 0,
               entry |-> ar.vcSubStream]

\* The count of scans is kept up to this number: one scan per reference of
\* the list, one that finds nothing, and one more to tell a further scan.
MaxScans == MaxTracked + 2

\* do { clean = true; and the initialisation of the for loop.
CleanDo ==
    /\ scan.pc = "do"
    /\ scan' = [scan EXCEPT !.pc = "for", !.clean = TRUE, !.i = 1,
                            !.scans = Min(@ + 1, MaxScans)]
    /\ UNCHANGED <<ar, lastOp, dirty, loaded, nCalls, hookFailed>>

\* A for loop that notes an expired reference and does not erase it.
CleanForKeeps ==
    /\ scan.pc = "for"
    /\ IF scan.i > Len(ar.vcSubStream)
       THEN scan' = [scan EXCEPT !.pc = "while"]
       ELSE IF ~ar.vcSubStream[scan.i].alive
            THEN scan' = [scan EXCEPT !.pc = "while", !.clean = FALSE]
            ELSE scan' = [scan EXCEPT !.i = @ + 1]
    /\ UNCHANGED <<ar, lastOp, dirty, loaded, nCalls, hookFailed>>

\* One turn of the for loop: the end test, the expired() test with erase and
\* break, or the increment.
CleanFor ==
    /\ scan.pc = "for"
    /\ IF scan.i > Len(ar.vcSubStream)
       THEN /\ scan' = [scan EXCEPT !.pc = "while"]
            /\ ar' = ar
       ELSE IF ~ar.vcSubStream[scan.i].alive
            THEN /\ ar' = [ar EXCEPT !.vcSubStream = RemoveAt(@, scan.i)]
                 /\ scan' = [scan EXCEPT !.pc = "while", !.clean = FALSE]
            ELSE /\ scan' = [scan EXCEPT !.i = @ + 1]
                 /\ ar' = ar
    /\ UNCHANGED <<lastOp, dirty, loaded, nCalls, hookFailed>>

\* } while (!clean); return;
CleanWhile ==
    /\ scan.pc = "while"
    /\ scan' = [scan EXCEPT !.pc = IF scan.clean THEN "return" ELSE "do"]
    /\ UNCHANGED <<ar, lastOp, dirty, loaded, nCalls, hookFailed>>

NextClean ==
    \/ CleanDo
    \/ CleanFor
    \/ CleanWhile

SpecClean == InitClean /\ [][NextClean]_vars

\* The routine runs in the calling thread with nothing to wait for: a
\* statement that can be executed is executed.
FairSpecClean == SpecClean /\ WF_vars(NextClean)

NumExpired(subs) == Cardinality({i \in 1..Len(subs) : ~subs[i].alive})

\* C40: cleanOpenSubstreams terminates for every finite list of tracked
\* references; each scan that finds an expired reference erases that one
\* reference, the first expired one, and restarts; the routine stops after
\* the first scan that finds none.  It returns the list the recursive
\* definition cleanOpenSubstreams gives, after one scan per expired
\* reference and one more.
C40_CleanOpenSubstreamsTerminates ==
    /\ <>(scan.pc = "return")
    /\ [](scan.pc = "return"
            => /\ ar.vcSubStream = cleanOpenSubstreams(scan.entry)
               /\ ar.vcSubStream = AliveSubs([vcSubStream |-> scan.entry])
               /\ scan.scans = NumExpired(scan.entry) + 1)
    /\ [][/\ ar'.vcSubStream # ar.vcSubStream
             => /\ scan.pc = "for" /\ scan'.pc = "while" /\ ~scan'.clean
                /\ ~ar.vcSubStream[scan.i].alive
                /\ \A j \in 1..(scan.i - 1) : ar.vcSubStream[j].alive
                /\ ar'.vcSubStream = RemoveAt(ar.vcSubStream, scan.i)
          /\ (scan.pc = "while" /\ scan.clean) => scan'.pc = "return"
          /\ scan'.scans \in {scan.scans, scan.scans + 1}]_vars

\* The routine has returned after three scans: it erased two expired
\* references and kept a live one.
C40_Witness ==
    /\ scan.pc = "return"
    /\ scan.scans = 3
    /\ Len(scan.entry) = 3
    /\ Len(ar.vcSubStream) = 1

=============================================================================
